---- MODULE Spec2Model ----
(***************************************************************************)
(* Model of the task store of fullstackjam/todolist (src/src/db.ts), its   *)
(* schema (schema.sql, src/unnamed/part_000) and the entry route of        *)
(* src/src/index.ts: createTodo, updateTodo, deleteTodo, updateDailyStats, *)
(* getStats, getSummaryReport and processRepeatTasks.                      *)
(*                                                                         *)
(* Time is counted in whole hours since 2025-01-01T00:00:00Z.  Timestamps  *)
(* written by the code are ISO strings of that instant, dates are the day  *)
(* number of that instant (the YYYY-MM-DD prefix of the ISO string).       *)
(* The years 2025..2027 are not leap years, so the calendar below is       *)
(* exact for every instant the model reaches.                              *)
(*                                                                         *)
(* A todos row carries the columns user_id, priority, due_date, status,    *)
(* repeat_type, repeat_interval, last_repeated_at, completed,              *)
(* completed_at, actual_minutes and archived; the rows getSummaryReport    *)
(* reads carry created_at as well.  The text columns, estimated_minutes,   *)
(* share_token and updated_at are left out, as are todo_tags (no request   *)
(* of the model carries tagIds).                                           *)
(*                                                                         *)
(* Spec runs every handler without interruption.  SpecRace splits          *)
(* processRepeatTasks at its awaits for two concurrent requests, SpecFail  *)
(* lets its UPDATE reject, SpecStats runs getStats on daily_stats tables   *)
(* of up to MaxRows rows.  SpecCrud adds deleteTodo, getStats and update   *)
(* bodies with minutes and the archive flag, SpecCreate splits createTodo  *)
(* at its awaits, and SpecReport runs getSummaryReport (src/src/db.js) and *)
(* getStats on todos tables with creation dates.                           *)
(***************************************************************************)
EXTENDS Integers, Sequences, FiniteSets, TLC

\* ------------------------------------------------------------------ bounds
MaxTodos == 2
MaxTicks == 3
MaxUpdates == 2
MaxRows == 32
MaxTags == 2
MaxSubtasks == 2
MaxComments == 2
MaxTokens == 3
MaxSessions == 2

\* --------------------------------------------------------------- constants
NULL == -1
\* NULL in the TEXT column repeat_type
NoRepeat == "NULL"
HoursPerDay == 24
DaysPerWeek == 7
DaysPerYear == 365
MonthsPerYear == 12
EpochYear == 2025
RecentLimit == 30

Users == {1, 2}
Procs == {1, 2}
\* 2025-12-31T00:00Z, the instant of the first request.
StartTime == 364 * HoursPerDay
\* Hours between one request and the next: the clock reads 2 h, 25 h and
\* 168 h after StartTime, then one week later each time.
TickStep(i) == CASE i = 1 -> 2 [] i = 2 -> 23 [] i = 3 -> 143 [] OTHER -> 168
Statuses == {"todo", "doing", "done"}

VARIABLES todos, nextId, daily_stats, now, ticks, updates, last, reopens,
          pc, puser, pnow, presults, base, stats, report, cseen,
          sessions, tags, subtasks, comments, todo_tags, sqlite_sequence,
          random, cins, ctodo, ctagIds, listing

vars == <<todos, nextId, daily_stats, now, ticks, updates, last, reopens,
          pc, puser, pnow, presults, base, stats, report, cseen,
          sessions, tags, subtasks, comments, todo_tags, sqlite_sequence,
          random, cins, ctodo, ctagIds, listing>>

\* The tables that hang off a task.
childVars == <<tags, subtasks, comments, todo_tags, sqlite_sequence>>

\* The sessions table and the count of random values drawn.
authVars == <<sessions, random>>

\* The locals of a createTodo call in flight.
createVars == <<cins, ctodo, ctagIds>>

extVars == <<authVars, childVars, createVars, listing>>

passVars == <<pc, puser, pnow, presults, base>>

\* ---------------------------------------------------------------- calendar
\* First day-of-year (0-based) of each month of a non-leap year.
MonthStart == <<0, 31, 59, 90, 120, 151, 181, 212, 243, 273, 304, 334>>

\* new Date().toISOString().split('T')[0]
DateOf(t) == t \div HoursPerDay

\* Date.prototype.getFullYear
FullYear(t) == EpochYear + (DateOf(t) \div DaysPerYear)

\* Date.prototype.getMonth (0 = January)
Month(t) == Cardinality({m \in 1..MonthsPerYear : MonthStart[m] <= DateOf(t) % DaysPerYear}) - 1

\* ------------------------------------------------------------------- todos
\* Column defaults of CREATE TABLE todos for the columns createTodo omits.
NewTodo(userId, data) ==
  [ user_id          |-> userId,
    priority         |-> IF data.priority = NULL THEN 0 ELSE data.priority,
    due_date         |-> data.due_date,
    status           |-> "todo",
    repeat_type      |-> data.repeat_type,
    repeat_interval  |-> IF data.repeat_interval = NULL \/ data.repeat_interval = 0
                         THEN 1 ELSE data.repeat_interval,
    last_repeated_at |-> NULL,
    completed        |-> 0,
    completed_at     |-> NULL,
    actual_minutes   |-> NULL,
    archived         |-> 0,
    share_token      |-> NULL ]

\* Request bodies of POST /api/todos the model draws from (title omitted,
\* no tagIds), and the signed-in user of each request.
NoRepeatData == [priority |-> NULL, due_date |-> NULL, repeat_type |-> NoRepeat, repeat_interval |-> NULL]
DailyData == [priority |-> 2, due_date |-> 370 * HoursPerDay, repeat_type |-> "daily", repeat_interval |-> 1]
Daily2Data == [priority |-> NULL, due_date |-> NULL, repeat_type |-> "daily", repeat_interval |-> 2]
WeeklyData == [priority |-> NULL, due_date |-> NULL, repeat_type |-> "weekly", repeat_interval |-> 1]
MonthlyData == [priority |-> NULL, due_date |-> NULL, repeat_type |-> "monthly", repeat_interval |-> 1]

CreateRequests ==
  { <<1, NoRepeatData>>, <<1, DailyData>>, <<1, Daily2Data>>, <<1, WeeklyData>>,
    <<1, MonthlyData>>, <<2, DailyData>> }

\* Request bodies of PATCH /api/todos/:id: every combination of completed
\* and status, a field left out being "absent"; no other field is sent.
UpdateInputs ==
  [ completed : {"absent", "true", "false"},
    status    : {"absent"} \cup Statuses ]

TodoIds == DOMAIN todos

\* ------------------------------------------------------------- daily_stats
\* daily_stats is keyed by <<user_id, date>> (UNIQUE(user_id, date)).
updateDailyStats(tbl, userId, type, t) ==
  LET today == DateOf(t)
      key == <<userId, today>>
  IN IF key \in DOMAIN tbl
     THEN IF type = "created"
          THEN [tbl EXCEPT ![key].created_count = @ + 1]
          ELSE [tbl EXCEPT ![key].completed_count = @ + 1]
     ELSE [k \in DOMAIN tbl \cup {key} |->
             IF k = key
             THEN [ created_count   |-> IF type = "created" THEN 1 ELSE 0,
                    completed_count |-> IF type = "completed" THEN 1 ELSE 0 ]
             ELSE tbl[k]]

\* ------------------------------------------------------ recurrence helpers
\* Ascending sequence of the elements of a finite set of integers.
RECURSIVE SortedSeq(_)
SortedSeq(S) ==
  IF S = {} THEN <<>>
  ELSE LET m == CHOOSE x \in S : \A y \in S : x <= y
       IN <<m>> \o SortedSeq(S \ {m})

\* Variant: the SELECT without "user_id = ?".
SelectCandidates_anyUser(tbl, userId) ==
  LET ids == {i \in DOMAIN tbl : tbl[i].repeat_type # NoRepeat /\ tbl[i].completed = 1}
      seq == SortedSeq(ids)
  IN [k \in 1..Len(seq) |->
        [ id              |-> seq[k],
          completed_at    |-> tbl[seq[k]].completed_at,
          repeat_type     |-> tbl[seq[k]].repeat_type,
          repeat_interval |-> tbl[seq[k]].repeat_interval ]]

\* SELECT * FROM todos WHERE user_id = ? AND repeat_type IS NOT NULL AND
\* completed = 1: the rows as read (id and the columns the loop uses), in
\* rowid order.
SelectCandidates(tbl, userId) ==
  LET ids == {i \in DOMAIN tbl : tbl[i].user_id = userId
                                  /\ tbl[i].repeat_type # NoRepeat
                                  /\ tbl[i].completed = 1}
      seq == SortedSeq(ids)
  IN [k \in 1..Len(seq) |->
        [ id              |-> seq[k],
          completed_at    |-> tbl[seq[k]].completed_at,
          repeat_type     |-> tbl[seq[k]].repeat_type,
          repeat_interval |-> tbl[seq[k]].repeat_interval ]]

\* Variant: "daysSince > todo.repeat_interval" for daily tasks.
ShouldRepeat_strict(todo, nowT) ==
  IF todo.completed_at = NULL THEN FALSE
  ELSE IF todo.repeat_type = "daily"
       THEN ((nowT - todo.completed_at) \div HoursPerDay) > todo.repeat_interval
  ELSE IF todo.repeat_type = "weekly"
       THEN ((nowT - todo.completed_at) \div (DaysPerWeek * HoursPerDay)) >= todo.repeat_interval
  ELSE IF todo.repeat_type = "monthly"
       THEN (FullYear(nowT) - FullYear(todo.completed_at)) * MonthsPerYear
              + (Month(nowT) - Month(todo.completed_at)) >= todo.repeat_interval
  ELSE FALSE

\* Variant: months counted as elapsed whole 30-day periods.
ShouldRepeat_days30(todo, nowT) ==
  IF todo.completed_at = NULL THEN FALSE
  ELSE IF todo.repeat_type = "daily"
       THEN ((nowT - todo.completed_at) \div HoursPerDay) >= todo.repeat_interval
  ELSE IF todo.repeat_type = "weekly"
       THEN ((nowT - todo.completed_at) \div (DaysPerWeek * HoursPerDay)) >= todo.repeat_interval
  ELSE IF todo.repeat_type = "monthly"
       THEN ((nowT - todo.completed_at) \div (30 * HoursPerDay)) >= todo.repeat_interval
  ELSE FALSE

\* The body of the loop up to "if (shouldRepeat)": todo is a row as read.
ShouldRepeat(todo, nowT) ==
  IF todo.completed_at = NULL THEN FALSE
  ELSE IF todo.repeat_type = "daily"
       THEN ((nowT - todo.completed_at) \div HoursPerDay) >= todo.repeat_interval
  ELSE IF todo.repeat_type = "weekly"
       THEN ((nowT - todo.completed_at) \div (DaysPerWeek * HoursPerDay)) >= todo.repeat_interval
  ELSE IF todo.repeat_type = "monthly"
       THEN (FullYear(nowT) - FullYear(todo.completed_at)) * MonthsPerYear
              + (Month(nowT) - Month(todo.completed_at)) >= todo.repeat_interval
  ELSE FALSE

\* Variant: the UPDATE sets status = 'todo' only.
ResetRow_statusOnly(tbl, id) ==
  IF id \in DOMAIN tbl THEN [tbl EXCEPT ![id].status = "todo"] ELSE tbl

\* Variant: the UPDATE matches no row.
ResetRow_noRow(tbl, id) == tbl

\* Variant: the UPDATE sets completed = 1 - completed.
ResetRow_toggle(tbl, id) ==
  IF id \in DOMAIN tbl
  THEN [tbl EXCEPT ![id].completed = 1 - @, ![id].completed_at = NULL, ![id].status = "todo"]
  ELSE tbl

\* UPDATE todos SET completed = 0, completed_at = NULL, status = 'todo'
\* WHERE id = ?
ResetRow(tbl, id) ==
  IF id \in DOMAIN tbl
  THEN [tbl EXCEPT ![id].completed = 0, ![id].completed_at = NULL, ![id].status = "todo"]
  ELSE tbl

\* The rows the loop of processRepeatTasks issues the reset for, as pairs
\* <<id, completed_at as read>>.
ResetRows(results, nowT) ==
  {<<results[k].id, results[k].completed_at>> :
     k \in {j \in 1..Len(results) : ShouldRepeat(results[j], nowT)}}

Ids(pairs) == {r[1] : r \in pairs}

\* for (const todo of results) { ... } run to completion on tbl.
RECURSIVE RunLoop(_, _, _)
RunLoop(tbl, results, nowT) ==
  IF results = <<>> THEN tbl
  ELSE RunLoop(IF ShouldRepeat(Head(results), nowT)
               THEN ResetRow(tbl, Head(results).id) ELSE tbl,
               Tail(results), nowT)

\* ----------------------------------------------------------------- history
\* last: the operation that produced the state.  A recurrence pass records
\* its user, the rows it reset, whether the previous operation was a pass of
\* the same user (then at the same instant) and the rows that one reset.
\* reopens[id]: resets of row id since the user last wrote it.
\* missing: the call found no row of the user and returned null or false;
\* token: the share token returned; route, cookie: the request being served.
OtherOp == [op |-> "other", user |-> 0, reopened |-> {}, again |-> FALSE, before |-> {},
            missing |-> FALSE, token |-> NULL, route |-> "none", cookie |-> 0]

NoStats == [user |-> 0, streak |-> 0, recentDays |-> <<>>]

\* The report variable before the first getSummaryReport call.
NoReport == [outcome |-> "none", user |-> 0]

IdleProcs == [p \in Procs |-> "idle"]

\* No listing has been asked for.
NoListing == [user |-> 0, ids |-> {}]

\* The tables and locals beside todos and daily_stats, empty.
ExtInit ==
  /\ sessions = {}
  /\ tags = {}
  /\ subtasks = {}
  /\ comments = {}
  /\ todo_tags = {}
  /\ sqlite_sequence = [tags |-> 0, subtasks |-> 0, comments |-> 0]
  /\ random = [sessions |-> 0, tokens |-> 0]
  /\ cins = [p \in Procs |-> 0]
  /\ ctodo = [p \in Procs |-> 0]
  /\ ctagIds = [p \in Procs |-> {}]
  /\ listing = NoListing

\* -------------------------------------------------------------------- Init
Init ==
  /\ todos = <<>>
  /\ nextId = 1
  /\ daily_stats = <<>>
  /\ now = StartTime
  /\ ticks = 0
  /\ updates = 0
  /\ last = OtherOp
  /\ reopens = <<>>
  /\ pc = IdleProcs
  /\ puser = [p \in Procs |-> 0]
  /\ pnow = [p \in Procs |-> 0]
  /\ presults = [p \in Procs |-> <<>>]
  /\ base = <<>>
  /\ stats = NoStats
  /\ report = NoReport
  /\ cseen = [p \in Procs |-> FALSE]
  /\ ExtInit

\* ----------------------------------------------------------------- actions
\* The clock advances.
Tick ==
  /\ ticks < MaxTicks
  /\ now' = now + TickStep(ticks + 1)
  /\ ticks' = ticks + 1
  /\ last' = OtherOp
  /\ UNCHANGED <<todos, nextId, daily_stats, updates, reopens, passVars, stats, report, cseen, extVars>>

\* data.tagIds, the empty list when the body has none.
TagIdsOf(data) == IF "tagIds" \in DOMAIN data THEN data.tagIds ELSE {}

\* createTodo(db, userId, data): INSERT, re-read, INSERT OR IGNORE INTO
\* todo_tags, updateDailyStats('created').
createTodo(userId, data) ==
  /\ nextId <= MaxTodos
  /\ todos' = [i \in TodoIds \cup {nextId} |->
                 IF i = nextId THEN NewTodo(userId, data) ELSE todos[i]]
  /\ nextId' = nextId + 1
  /\ daily_stats' = updateDailyStats(daily_stats, userId, "created", now)
  /\ reopens' = [i \in TodoIds \cup {nextId} |-> IF i = nextId THEN 0 ELSE reopens[i]]
  /\ todo_tags' = todo_tags \cup ({nextId} \X TagIdsOf(data))
  /\ last' = OtherOp
  /\ UNCHANGED <<now, ticks, updates, passVars, stats, report, cseen, authVars,
                 tags, subtasks, comments, sqlite_sequence, createVars, listing>>

\* updates.f !== undefined
Sent(upd, f) == f \in DOMAIN upd /\ upd[f] # "absent"

\* updates.f ?? current, for a numeric field f
Coalesce(upd, f, current) ==
  IF f \in DOMAIN upd /\ upd[f] # NULL THEN upd[f] ELSE current

\* Variant: completed: false leaves completed_at as it was.
UpdatedRow_keepsStamp(existing, upd, nowT) ==
  LET status == IF upd.status = "absent" THEN existing.status ELSE upd.status
      c1  == IF upd.completed = "absent" THEN existing.completed
             ELSE IF upd.completed = "true" THEN 1 ELSE 0
      ca1 == IF upd.completed = "true" THEN nowT ELSE existing.completed_at
      becomesDone == upd.status = "done" /\ existing.status # "done"
  IN [existing EXCEPT !.status = status,
                      !.completed = IF becomesDone THEN 1 ELSE c1,
                      !.completed_at = IF becomesDone THEN nowT ELSE ca1,
                      !.priority = Coalesce(upd, "priority", @),
                      !.due_date = IF "due_date" \in DOMAIN upd THEN upd.due_date ELSE @,
                      !.actual_minutes = Coalesce(upd, "actual_minutes", @),
                      !.archived = IF Sent(upd, "archived")
                                   THEN (IF upd.archived = "true" THEN 1 ELSE 0) ELSE @]

\* The values updateTodo binds in its UPDATE; a field the body does not
\* carry is not in the domain of upd or is "absent", and null is NULL.
UpdatedRow(existing, upd, nowT) ==
  LET status == IF upd.status = "absent" THEN existing.status ELSE upd.status
      c1  == IF upd.completed = "absent" THEN existing.completed
             ELSE IF upd.completed = "true" THEN 1 ELSE 0
      ca1 == IF upd.completed = "absent" THEN existing.completed_at
             ELSE IF upd.completed = "true" THEN nowT ELSE NULL
      becomesDone == upd.status = "done" /\ existing.status # "done"
  IN [existing EXCEPT !.status = status,
                      !.completed = IF becomesDone THEN 1 ELSE c1,
                      !.completed_at = IF becomesDone THEN nowT ELSE ca1,
                      !.priority = Coalesce(upd, "priority", @),
                      !.due_date = IF "due_date" \in DOMAIN upd THEN upd.due_date ELSE @,
                      !.actual_minutes = Coalesce(upd, "actual_minutes", @),
                      !.archived = IF Sent(upd, "archived")
                                   THEN (IF upd.archived = "true" THEN 1 ELSE 0) ELSE @]

\* The updateDailyStats calls updateTodo makes before its UPDATE.
UpdatedStats(tbl, existing, userId, upd, nowT) ==
  LET s1 == IF upd.completed = "true" /\ existing.completed = 0
            THEN updateDailyStats(tbl, userId, "completed", nowT) ELSE tbl
  IN IF upd.status = "done" /\ existing.status # "done"
     THEN updateDailyStats(s1, userId, "completed", nowT) ELSE s1

\* updateTodo(db, userId, todoId, updates); a missing or foreign row returns
\* null and writes nothing.
updateTodo(userId, todoId, upd) ==
  /\ IF todoId \in TodoIds /\ todos[todoId].user_id = userId
     THEN LET stat == UpdatedStats(daily_stats, todos[todoId], userId, upd, now)
          IN /\ updates < MaxUpdates
             /\ updates' = updates + 1
             /\ daily_stats' = stat
             /\ todos' = [todos EXCEPT ![todoId] = UpdatedRow(todos[todoId], upd, now)]
             /\ reopens' = [reopens EXCEPT ![todoId] = 0]
             /\ todo_tags' = IF "tagIds" \in DOMAIN upd
                             THEN {l \in todo_tags : l[1] # todoId} \cup ({todoId} \X upd.tagIds)
                             ELSE todo_tags
     ELSE UNCHANGED <<todos, daily_stats, reopens, updates, todo_tags>>
  /\ last' = [OtherOp EXCEPT !.missing = ~(todoId \in TodoIds /\ todos[todoId].user_id = userId)]
  /\ UNCHANGED <<nextId, now, ticks, passVars, stats, report, cseen, authVars,
                 tags, subtasks, comments, sqlite_sequence, createVars, listing>>

\* FOREIGN KEY (todo_id) REFERENCES todos(id) ON DELETE CASCADE, on subtasks,
\* comments and todo_tags.
Cascade(todoId) ==
  /\ subtasks' = {s \in subtasks : s.todo_id # todoId}
  /\ comments' = {c \in comments : c.todo_id # todoId}
  /\ todo_tags' = {l \in todo_tags : l[1] # todoId}
  /\ UNCHANGED <<tags, sqlite_sequence>>

\* Variant: the delete takes today's daily_stats row of the user with it.
deleteTodo_dropsStats(userId, todoId) ==
  /\ IF todoId \in TodoIds /\ todos[todoId].user_id = userId
     THEN /\ todos' = [i \in TodoIds \ {todoId} |-> todos[i]]
          /\ reopens' = [i \in TodoIds \ {todoId} |-> reopens[i]]
          /\ daily_stats' = [k \in DOMAIN daily_stats \ {<<userId, DateOf(now)>>} |-> daily_stats[k]]
          /\ Cascade(todoId)
     ELSE UNCHANGED <<todos, reopens, daily_stats, childVars>>
  /\ last' = [OtherOp EXCEPT !.op = "delete", !.user = userId,
                             !.missing = ~(todoId \in TodoIds /\ todos[todoId].user_id = userId)]
  /\ UNCHANGED <<nextId, now, ticks, updates, passVars, stats, report, cseen, authVars, createVars, listing>>

\* deleteTodo(db, userId, todoId): DELETE FROM todos WHERE id = ? AND
\* user_id = ?; the rows hanging off the task go with it, no other table is
\* written.
deleteTodo(userId, todoId) ==
  /\ IF todoId \in TodoIds /\ todos[todoId].user_id = userId
     THEN /\ todos' = [i \in TodoIds \ {todoId} |-> todos[i]]
          /\ reopens' = [i \in TodoIds \ {todoId} |-> reopens[i]]
          /\ Cascade(todoId)
     ELSE UNCHANGED <<todos, reopens, childVars>>
  /\ last' = [OtherOp EXCEPT !.op = "delete", !.user = userId,
                             !.missing = ~(todoId \in TodoIds /\ todos[todoId].user_id = userId)]
  /\ UNCHANGED <<nextId, daily_stats, now, ticks, updates, passVars, stats, report, cseen, authVars, createVars, listing>>

\* processRepeatTasks(db, userId) run without interruption, as GET / awaits
\* it for the signed-in user.
processRepeatTasks(userId) ==
  LET results == SelectCandidates(todos, userId)
      rows == ResetRows(results, now)
      again == last.op = "pass" /\ last.user = userId
  IN /\ todos' = RunLoop(todos, results, now)
     /\ reopens' = [i \in TodoIds |-> IF i \in Ids(rows) THEN reopens[i] + 1 ELSE reopens[i]]
     /\ last' = [op |-> "pass", user |-> userId, reopened |-> rows, again |-> again,
                 missing |-> FALSE, token |-> NULL, route |-> "none", cookie |-> 0,
                 before |-> IF again THEN last.reopened ELSE {}]
     /\ UNCHANGED <<nextId, daily_stats, now, ticks, updates, passVars, stats, report, cseen, extVars>>

Next ==
  \/ Tick
  \/ \E r \in CreateRequests : createTodo(r[1], r[2])
  \/ \E u \in Users, id \in 1..MaxTodos, up \in UpdateInputs : updateTodo(u, id, up)
  \/ \E u \in Users : processRepeatTasks(u)

Spec == Init /\ [][Next]_vars

\* -------------------------------------------- processRepeatTasks, stepwise
\* Two requests GET / (Procs) run processRepeatTasks as the awaits of the code
\* interleave them: "const now = new Date()", the SELECT, one loop iteration
\* per row read, the return.  pc is each request's position.
AllIdle == \A q \in Procs : pc[q] = "idle"
InFlight(q) == pc[q] \in {"select", "loop"}

\* app.get("/") calls processRepeatTasks(c.env.DB, user.id); now is read
\* before the SELECT is awaited.  base remembers the table as it was when no
\* pass was running.
PassStart(p, userId) ==
  /\ pc[p] = "idle"
  /\ pc' = [pc EXCEPT ![p] = "select"]
  /\ puser' = [puser EXCEPT ![p] = userId]
  /\ pnow' = [pnow EXCEPT ![p] = now]
  /\ presults' = [presults EXCEPT ![p] = <<>>]
  /\ base' = IF AllIdle THEN todos ELSE base
  /\ last' = OtherOp
  /\ UNCHANGED <<todos, nextId, daily_stats, now, ticks, updates, reopens, stats, report, cseen, extVars>>

\* The SELECT of the candidate rows.
PassSelect(p) ==
  /\ pc[p] = "select"
  /\ presults' = [presults EXCEPT ![p] = SelectCandidates(todos, puser[p])]
  /\ pc' = [pc EXCEPT ![p] = "loop"]
  /\ last' = OtherOp
  /\ UNCHANGED <<todos, nextId, daily_stats, now, ticks, updates, reopens, puser, pnow, base, stats, report, cseen, extVars>>

\* One iteration of the loop on the next row read: the reset UPDATE is keyed
\* by id alone and uses the row as read.
PassIter(p) ==
  /\ pc[p] = "loop"
  /\ presults[p] # <<>>
  /\ LET todo == Head(presults[p])
     IN IF ShouldRepeat(todo, pnow[p])
        THEN /\ todos' = ResetRow(todos, todo.id)
             /\ reopens' = [reopens EXCEPT ![todo.id] = @ + 1]
        ELSE UNCHANGED <<todos, reopens>>
  /\ presults' = [presults EXCEPT ![p] = Tail(@)]
  /\ last' = OtherOp
  /\ UNCHANGED <<nextId, daily_stats, now, ticks, updates, pc, puser, pnow, base, stats, report, cseen, extVars>>

\* The reset UPDATE rejects (a D1 error): the await throws out of the loop
\* and out of processRepeatTasks, which has no try/catch; the rows not yet
\* examined stay in presults.
PassIterFails(p) ==
  /\ pc[p] = "loop"
  /\ presults[p] # <<>>
  /\ ShouldRepeat(Head(presults[p]), pnow[p])
  /\ presults' = [presults EXCEPT ![p] = Tail(@)]
  /\ pc' = [pc EXCEPT ![p] = "failed"]
  /\ last' = OtherOp
  /\ UNCHANGED <<todos, nextId, daily_stats, now, ticks, updates, reopens, puser, pnow, base, stats, report, cseen, extVars>>

\* The loop is exhausted: processRepeatTasks resolves.
PassReturn(p) ==
  /\ pc[p] = "loop"
  /\ presults[p] = <<>>
  /\ pc' = [pc EXCEPT ![p] = "done"]
  /\ last' = OtherOp
  /\ UNCHANGED <<todos, nextId, daily_stats, now, ticks, updates, reopens, puser, pnow, presults, base, stats, report, cseen, extVars>>

\* The responses are sent (the page, or the error of a rejected pass) once no
\* pass is running.
PassRespond ==
  /\ \A q \in Procs : ~InFlight(q)
  /\ ~AllIdle
  /\ pc' = IdleProcs
  /\ puser' = [p \in Procs |-> 0]
  /\ pnow' = [p \in Procs |-> 0]
  /\ presults' = [p \in Procs |-> <<>>]
  /\ base' = <<>>
  /\ last' = OtherOp
  /\ UNCHANGED <<todos, nextId, daily_stats, now, ticks, updates, reopens, stats, report, cseen, extVars>>

\* The requests the client sends while passes are studied: new recurring
\* tasks, and the two bodies of toggleComplete.
RaceCreateRequests == { <<1, DailyData>>, <<1, WeeklyData>>, <<2, DailyData>> }

ToggleInputs ==
  { [completed |-> "true", status |-> "done"],
    [completed |-> "false", status |-> "todo"] }

NextRace ==
  \/ Tick
  \/ AllIdle /\ \E r \in RaceCreateRequests : createTodo(r[1], r[2])
  \/ AllIdle /\ \E u \in Users, id \in 1..MaxTodos, up \in ToggleInputs : updateTodo(u, id, up)
  \/ \E p \in Procs, u \in Users : PassStart(p, u)
  \/ \E p \in Procs : PassSelect(p)
  \/ \E p \in Procs : PassIter(p)
  \/ \E p \in Procs : PassReturn(p)
  \/ PassRespond

SpecRace == Init /\ [][NextRace]_vars

NextFail ==
  \/ NextRace
  \/ \E p \in Procs : PassIterFails(p)

SpecFail == Init /\ [][NextFail]_vars

\* ------------------------------------------------- concurrent createTodo
\* createTodo split at its awaits, for two concurrent requests.  The INSERT
\* INTO todos; cins is the id the INSERT of the call gave its row.
CreateInsert(p, userId, data) ==
  /\ pc[p] = "idle"
  /\ nextId <= MaxTodos
  /\ todos' = [i \in TodoIds \cup {nextId} |-> IF i = nextId THEN NewTodo(userId, data) ELSE todos[i]]
  /\ nextId' = nextId + 1
  /\ reopens' = [i \in TodoIds \cup {nextId} |-> IF i = nextId THEN 0 ELSE reopens[i]]
  /\ pc' = [pc EXCEPT ![p] = "reread"]
  /\ puser' = [puser EXCEPT ![p] = userId]
  /\ cins' = [cins EXCEPT ![p] = nextId]
  /\ ctagIds' = [ctagIds EXCEPT ![p] = TagIdsOf(data)]
  /\ last' = OtherOp
  /\ UNCHANGED <<daily_stats, now, ticks, updates, pnow, presults, base, stats, report, cseen,
                 authVars, childVars, ctodo, listing>>

\* const todo = SELECT * FROM todos WHERE user_id = ? ORDER BY id DESC LIMIT
\* 1: the row of the user with the highest id at this moment.
CreateReread(p) ==
  /\ pc[p] = "reread"
  /\ LET mine == {i \in TodoIds : todos[i].user_id = puser[p]}
     IN ctodo' = [ctodo EXCEPT ![p] = CHOOSE m \in mine : \A i \in mine : i <= m]
  /\ pc' = [pc EXCEPT ![p] = "attach"]
  /\ last' = OtherOp
  /\ UNCHANGED <<todos, nextId, daily_stats, now, ticks, updates, reopens, puser, pnow, presults,
                 base, stats, report, cseen, authVars, childVars, cins, ctagIds, listing>>

\* for (const tagId of data.tagIds) INSERT OR IGNORE INTO todo_tags
\* (todo_id, tag_id) VALUES (todo.id, tagId)
CreateAttach(p) ==
  /\ pc[p] = "attach"
  /\ todo_tags' = todo_tags \cup ({ctodo[p]} \X ctagIds[p])
  /\ pc' = [pc EXCEPT ![p] = "stat_select"]
  /\ last' = OtherOp
  /\ UNCHANGED <<todos, nextId, daily_stats, now, ticks, updates, reopens, puser, pnow, presults,
                 base, stats, report, cseen, authVars, tags, subtasks, comments,
                 sqlite_sequence, createVars, listing>>

\* updateDailyStats reads the date and awaits SELECT * FROM daily_stats
\* WHERE user_id = ? AND date = ?.
CreateSelectStat(p) ==
  /\ pc[p] = "stat_select"
  /\ pnow' = [pnow EXCEPT ![p] = now]
  /\ cseen' = [cseen EXCEPT ![p] = (<<puser[p], DateOf(now)>> \in DOMAIN daily_stats)]
  /\ pc' = [pc EXCEPT ![p] = "stat_write"]
  /\ last' = OtherOp
  /\ UNCHANGED <<todos, nextId, daily_stats, now, ticks, updates, reopens, puser, presults, base, stats, report, extVars>>

\* if (existing) UPDATE ... SET created_count = created_count + 1 WHERE id
\* = ?; else INSERT INTO daily_stats, which UNIQUE(user_id, date) rejects
\* when the row has been inserted since the SELECT: the rejection leaves
\* createTodo, and the request fails.
CreateWriteStat(p) ==
  LET key == <<puser[p], DateOf(pnow[p])>>
  IN /\ pc[p] = "stat_write"
     /\ IF ~cseen[p] /\ key \in DOMAIN daily_stats
        THEN /\ pc' = [pc EXCEPT ![p] = "failed"]
             /\ UNCHANGED daily_stats
        ELSE /\ pc' = [pc EXCEPT ![p] = "created"]
             /\ daily_stats' = updateDailyStats(daily_stats, puser[p], "created", pnow[p])
     /\ last' = OtherOp
     /\ UNCHANGED <<todos, nextId, now, ticks, updates, reopens, puser, pnow, presults, base, stats, report, cseen, extVars>>

\* The response is sent: 201 with getTodoById(db, todo.id), or the error of
\* the failed request.
CreateRespond(p) ==
  /\ pc[p] \in {"created", "failed"}
  /\ pc' = [pc EXCEPT ![p] = "idle"]
  /\ puser' = [puser EXCEPT ![p] = 0]
  /\ pnow' = [pnow EXCEPT ![p] = 0]
  /\ cseen' = [cseen EXCEPT ![p] = FALSE]
  /\ cins' = [cins EXCEPT ![p] = 0]
  /\ ctodo' = [ctodo EXCEPT ![p] = 0]
  /\ ctagIds' = [ctagIds EXCEPT ![p] = {}]
  /\ last' = [OtherOp EXCEPT !.op = IF pc[p] = "failed" THEN "create failed" ELSE "created"]
  /\ UNCHANGED <<todos, nextId, daily_stats, now, ticks, updates, reopens, presults, base, stats,
                 report, authVars, childVars, listing>>

\* data with the tagIds of the request body.
WithTags(data, tagIds) ==
  [f \in DOMAIN data \cup {"tagIds"} |-> IF f = "tagIds" THEN tagIds ELSE data[f]]

\* The requests of the two concurrent calls: two of user 1 with different
\* tags, one of user 2 without tags.
TagCreateRequests ==
  { <<1, WithTags(DailyData, {1})>>, <<1, WithTags(WeeklyData, {2})>>, <<2, DailyData>> }

NextCreate ==
  \/ \E p \in Procs, r \in TagCreateRequests : CreateInsert(p, r[1], r[2])
  \/ \E p \in Procs : CreateReread(p)
  \/ \E p \in Procs : CreateAttach(p)
  \/ \E p \in Procs : CreateSelectStat(p)
  \/ \E p \in Procs : CreateWriteStat(p)
  \/ \E p \in Procs : CreateRespond(p)

SpecCreate == Init /\ [][NextCreate]_vars

\* ---------------------------------------------------------------- getStats
\* The dates of the user's daily_stats rows.
StatDates(tbl, userId) == {k[2] : k \in {x \in DOMAIN tbl : x[1] = userId}}

\* Descending sequence of at most n elements of a finite set of integers.
RECURSIVE TopDesc(_, _)
TopDesc(S, n) ==
  IF S = {} \/ n = 0 THEN <<>>
  ELSE LET m == CHOOSE x \in S : \A y \in S : y <= x
       IN <<m>> \o TopDesc(S \ {m}, n - 1)

\* SELECT * FROM daily_stats WHERE user_id = ? ORDER BY date DESC LIMIT 30,
\* then sorted again by date descending.
RecentDays(tbl, userId) ==
  LET dates == TopDesc(StatDates(tbl, userId), RecentLimit)
  IN [k \in 1..Len(dates) |->
        [ date            |-> dates[k],
          created_count   |-> tbl[<<userId, dates[k]>>].created_count,
          completed_count |-> tbl[<<userId, dates[k]>>].completed_count ]]

\* Variant: the loop skips a day without completions instead of stopping.
RECURSIVE Streak_noBreak(_)
Streak_noBreak(days) ==
  IF days = <<>> THEN 0
  ELSE (IF Head(days).completed_count > 0 THEN 1 ELSE 0) + Streak_noBreak(Tail(days))

\* for (const day of sortedDays) { if (day.completed_count > 0) streak++;
\* else break; }
RECURSIVE Streak(_)
Streak(days) ==
  IF days = <<>> THEN 0
  ELSE IF Head(days).completed_count > 0 THEN 1 + Streak(Tail(days))
  ELSE 0

\* Sum of f over the finite set S.
RECURSIVE SumOver(_, _)
SumOver(S, f) ==
  IF S = {} THEN 0
  ELSE LET x == CHOOSE y \in S : TRUE IN f[x] + SumOver(S \ {x}, f)

\* Math.round(sum / count) for sum >= 0 and count > 0.
RoundDiv(sum, count) == (2 * sum + count) \div (2 * count)

\* Variant: the rows of every user.
ActiveIds_anyUser(tbl, userId) ==
  {i \in DOMAIN tbl : tbl[i].archived = 0}

\* The rows WHERE user_id = ? AND archived = 0 selects.
ActiveIds(tbl, userId) ==
  {i \in DOMAIN tbl : tbl[i].user_id = userId /\ tbl[i].archived = 0}

\* The rows the AVG(actual_minutes) query of getStats selects.
TimedIds(tbl, userId) ==
  {i \in DOMAIN tbl : tbl[i].user_id = userId /\ tbl[i].actual_minutes # NULL}

\* Math.round(avgTime?.avg || 0)
AvgCompletionTime(tbl, userId) ==
  LET ids == TimedIds(tbl, userId)
  IN IF ids = {} THEN 0
     ELSE RoundDiv(SumOver(ids, [i \in ids |-> tbl[i].actual_minutes]), Cardinality(ids))

\* SELECT priority, COUNT(*) ... GROUP BY priority, as a set of rows.
ByPriority(tbl, userId) ==
  LET ids == ActiveIds(tbl, userId)
  IN {[priority |-> tbl[i].priority,
       count |-> Cardinality({j \in ids : tbl[j].priority = tbl[i].priority})] : i \in ids}

\* SELECT status, COUNT(*) ... GROUP BY status, as a set of rows.
ByStatus(tbl, userId) ==
  LET ids == ActiveIds(tbl, userId)
  IN {[status |-> tbl[i].status,
       count |-> Cardinality({j \in ids : tbl[j].status = tbl[i].status})] : i \in ids}

\* getStats(db, userId)
getStats(userId) ==
  /\ stats' = [ user       |-> userId,
                totalTodos |-> Cardinality(ActiveIds(todos, userId)),
                completedToday |->
                  Cardinality({i \in TodoIds : /\ todos[i].user_id = userId
                                               /\ todos[i].completed = 1
                                               /\ todos[i].completed_at # NULL
                                               /\ DateOf(todos[i].completed_at) = DateOf(now)}),
                completedThisWeek |->
                  Cardinality({i \in TodoIds : /\ todos[i].user_id = userId
                                               /\ todos[i].completed = 1
                                               /\ todos[i].completed_at # NULL
                                               /\ todos[i].completed_at >= now - DaysPerWeek * HoursPerDay}),
                streak     |-> Streak(RecentDays(daily_stats, userId)),
                avgCompletionTime |-> AvgCompletionTime(todos, userId),
                byPriority |-> ByPriority(todos, userId),
                byStatus   |-> ByStatus(todos, userId),
                recentDays |-> RecentDays(daily_stats, userId) ]
  /\ last' = [OtherOp EXCEPT !.op = "stats", !.user = userId,
                             !.again = (last.op = "stats" /\ last.user = userId)]
  /\ UNCHANGED <<todos, nextId, daily_stats, now, ticks, updates, reopens, passVars, report, cseen, extVars>>

\* daily_stats tables to run getStats on.  User 1 has n rows on consecutive
\* dates, the most recent one lag days before today, with GapDays missing
\* days after the gapAt most recent rows; every row records one completion
\* but the row at position z (counted from the most recent) and, if
\* zOldest, the oldest row, which record one creation only.  User 2 has two
\* rows or none.
GapDays == 2
Today == DateOf(StartTime)

StatDate(i, lag, gapAt) ==
  Today - lag - (i - 1) - (IF gapAt > 0 /\ i > gapAt THEN GapDays ELSE 0)

StatTable(n, z, zOldest, lag, gapAt, other) ==
  [k \in {<<1, StatDate(i, lag, gapAt)>> : i \in 1..n}
          \cup (IF other THEN {<<2, Today>>, <<2, Today - 1>>} ELSE {}) |->
     IF k[1] = 2
     THEN [created_count |-> 0, completed_count |-> 1]
     ELSE LET i == CHOOSE j \in 1..n : k[2] = StatDate(j, lag, gapAt)
          IN IF i = z \/ (zOldest /\ i = n)
             THEN [created_count |-> 1, completed_count |-> 0]
             ELSE [created_count |-> 0, completed_count |-> 1]]

StatShapes ==
  {q \in [n : 0..MaxRows, z : 0..MaxRows, zOldest : BOOLEAN,
          lag : {0, 3}, gapAt : 0..2, other : BOOLEAN] : q.z <= q.n}

StatTables ==
  {StatTable(q.n, q.z, q.zOldest, q.lag, q.gapAt, q.other) : q \in StatShapes}

InitStats ==
  /\ todos = <<>>
  /\ nextId = 1
  /\ daily_stats \in StatTables
  /\ now = StartTime
  /\ ticks = 0
  /\ updates = 0
  /\ last = OtherOp
  /\ reopens = <<>>
  /\ pc = IdleProcs
  /\ puser = [p \in Procs |-> 0]
  /\ pnow = [p \in Procs |-> 0]
  /\ presults = [p \in Procs |-> <<>>]
  /\ base = <<>>
  /\ stats = NoStats
  /\ report = NoReport
  /\ cseen = [p \in Procs |-> FALSE]
  /\ ExtInit

NextStats == \E u \in Users : getStats(u)

SpecStats == InitStats /\ [][NextStats]_vars

\* -------------------------------------------------------- getSummaryReport
\* A date option is a string.  IsoDate(y, m, d) is the string of four
\* digits, a dash, two digits, a dash and two digits; AbsentText is the
\* option left out (or empty), OtherText a string of any other shape.
IsoDate(y, m, d) == [kind |-> "ymd", y |-> y, m |-> m, d |-> d]
AbsentText == [kind |-> "absent", y |-> 0, m |-> 0, d |-> 0]
OtherText == [kind |-> "text", y |-> 0, m |-> 0, d |-> 0]
\* What toISOString throws for an Invalid Date.
RangeError == [kind |-> "RangeError", y |-> 0, m |-> 0, d |-> 0]

\* /^\d{4}-\d{2}-\d{2}$/.test(value)
isIsoDateOnly(value) == value.kind = "ymd"

\* a <= b for two strings of that shape (compared as strings)
DateLeq(a, b) ==
  \/ a.y < b.y
  \/ a.y = b.y /\ a.m < b.m
  \/ a.y = b.y /\ a.m = b.m /\ a.d <= b.d

\* new Date(`${isoDate}T00:00:00.000Z`) is a valid Date: the parser takes a
\* month 01..12 and a day 01..31, a day past the end of the month rolling
\* over into the next one, and gives an Invalid Date for any other value.
ValidParse(iso) == iso.m \in 1..MonthsPerYear /\ iso.d \in 1..31

\* The day number of a parsed date.
DayNumber(iso) == (iso.y - EpochYear) * DaysPerYear + MonthStart[iso.m] + iso.d - 1

\* toISOString().split("T")[0] of the day with number n
IsoOfDay(n) ==
  LET m == Month(n * HoursPerDay) + 1
  IN IsoDate(EpochYear + (n \div DaysPerYear), m, (n % DaysPerYear) - MonthStart[m] + 1)

\* addDaysIsoDateOnly(isoDate, days)
addDaysIsoDateOnly(isoDate, days) ==
  IF ValidParse(isoDate) THEN IsoOfDay(DayNumber(isoDate) + days) ELSE RangeError

\* A days option: a finite number, given in tenths, or NaN, an infinity or
\* a value that is not a number ("other"), or the option left out.
Finite(tenths) == [kind |-> "finite", tenths |-> tenths]
NotFinite == [kind |-> "other", tenths |-> 0]
AbsentDays == [kind |-> "absent", tenths |-> 0]

\* Math.trunc
Trunc(tenths) == IF tenths >= 0 THEN tenths \div 10 ELSE -((-tenths) \div 10)

\* clampDays(value)
clampDays(value) ==
  IF value.kind # "finite" THEN 7
  ELSE LET t == Trunc(value.tenths)
           lo == IF t < 1 THEN 1 ELSE t
       IN IF lo > 365 THEN 365 ELSE lo

\* The number of the last day whose string is <= end, for end of the shape
\* of a date: the day itself, the last day of its month when the month is
\* shorter, the day before the month when the day is 00, and the last day
\* of the year before or of the year when the month is 00 or beyond 12.
LastDayLeq(end) ==
  LET yearStart == (end.y - EpochYear) * DaysPerYear
      monthEnd == IF end.m = MonthsPerYear THEN DaysPerYear ELSE MonthStart[end.m + 1]
  IN IF end.m < 1 THEN yearStart - 1
     ELSE IF end.m > MonthsPerYear THEN yearStart + DaysPerYear - 1
     ELSE IF yearStart + MonthStart[end.m] + end.d > yearStart + monthEnd
          THEN yearStart + monthEnd - 1
          ELSE yearStart + MonthStart[end.m] + end.d - 1

\* for (let d = start; d <= end; d = addDaysIsoDateOnly(d, 1)) push(d); the
\* list ends with RangeError when addDaysIsoDateOnly throws.  Every d after
\* the first is the day after the parsed previous one, so the list is start
\* followed by the days from the one after start to the last one whose
\* string is <= end.
DateList(start, end) ==
  IF start.kind = "RangeError" THEN <<start>>
  ELSE IF ~DateLeq(start, end) THEN <<>>
  ELSE IF ~ValidParse(start) THEN <<start, RangeError>>
  ELSE LET first == DayNumber(start) + 1
           lastDay == LastDayLeq(end)
       IN <<start>> \o [k \in 1..(lastDay - first + 1) |-> IsoOfDay(first + k - 1)]

\* date(created_at), date(completed_at)
SqlDate(t) == IsoOfDay(DateOf(t))

\* WHERE user_id = ? AND date(created_at) BETWEEN ? AND ?
CreatedIn(tbl, userId, start, end) ==
  {i \in DOMAIN tbl : /\ tbl[i].user_id = userId
                      /\ DateLeq(start, SqlDate(tbl[i].created_at))
                      /\ DateLeq(SqlDate(tbl[i].created_at), end)}

\* WHERE user_id = ? AND completed = 1 AND completed_at IS NOT NULL AND
\* date(completed_at) BETWEEN ? AND ?
CompletedIn(tbl, userId, start, end) ==
  {i \in DOMAIN tbl : /\ tbl[i].user_id = userId
                      /\ tbl[i].completed = 1
                      /\ tbl[i].completed_at # NULL
                      /\ DateLeq(start, SqlDate(tbl[i].completed_at))
                      /\ DateLeq(SqlDate(tbl[i].completed_at), end)}

\* COUNT, AVG and SUM of actual_minutes over the rows ids that have a value.
ActualTotals(tbl, ids) ==
  LET timed == {i \in ids : tbl[i].actual_minutes # NULL}
      total == SumOver(timed, [i \in timed |-> tbl[i].actual_minutes])
  IN [ totalActualMinutes |-> total,
       avgActualMinutes |-> IF timed = {} THEN 0 ELSE RoundDiv(total, Cardinality(timed)),
       actualMinutesSampleCount |-> Cardinality(timed) ]

\* One element of perDay: the GROUP BY rows whose date is the string date.
PerDayEntry(tbl, created, completed, date) ==
  LET actual == ActualTotals(tbl, {i \in completed : SqlDate(tbl[i].completed_at) = date})
  IN [ date |-> date,
       createdCount |-> Cardinality({i \in created : SqlDate(tbl[i].created_at) = date}),
       completedCount |-> Cardinality({i \in completed : SqlDate(tbl[i].completed_at) = date}),
       totalActualMinutes |-> actual.totalActualMinutes,
       avgActualMinutes |-> actual.avgActualMinutes,
       actualMinutesSampleCount |-> actual.actualMinutesSampleCount ]

\* The queries and the result of getSummaryReport for the range start..end
\* and the list dateList; the estimated-minutes fields, computed like the
\* actual-minutes ones, are left out.
RangeReport(tbl, userId, options, start, end, dateList, created, completed) ==
  LET actual == ActualTotals(tbl, completed)
  IN IF dateList # <<>> /\ dateList[Len(dateList)].kind = "RangeError"
     THEN [outcome |-> "error", user |-> userId, options |-> options]
     ELSE [ outcome |-> "ok", user |-> userId, options |-> options,
            range |-> [start |-> start, end |-> end, days |-> Len(dateList)],
            totals |-> [ createdCount |-> Cardinality(created),
                         completedCount |-> Cardinality(completed),
                         totalActualMinutes |-> actual.totalActualMinutes,
                         avgActualMinutes |-> actual.avgActualMinutes,
                         actualMinutesSampleCount |-> actual.actualMinutesSampleCount ],
            perDay |-> [k \in 1..Len(dateList) |->
                          PerDayEntry(tbl, created, completed, dateList[k])] ]

\* The value getSummaryReport returns, or the error it throws.  (The range,
\* the list and the query results are bound once, as in the code.)
SummaryReport(tbl, userId, options, nowT) ==
  LET today == SqlDate(nowT)
      end == IF options.end.kind # "absent" /\ isIsoDateOnly(options.end)
             THEN options.end ELSE today
      days == clampDays(IF options.days.kind = "absent" THEN Finite(70) ELSE options.days)
      start == IF options.start.kind # "absent" /\ isIsoDateOnly(options.start)
               THEN options.start ELSE addDaysIsoDateOnly(end, -(days - 1))
  IN CHOOSE r \in {RangeReport(tbl, userId, options, b.start, b.end, b.dateList, b.created, b.completed) :
                     b \in {[start |-> start, end |-> end, dateList |-> DateList(start, end),
                             created |-> CreatedIn(tbl, userId, start, end),
                             completed |-> CompletedIn(tbl, userId, start, end)]}} : TRUE

\* Variant: the report counts itself in today's daily_stats row.
getSummaryReport_counted(userId, options) ==
  /\ report' = SummaryReport(todos, userId, options, now)
  /\ daily_stats' = updateDailyStats(daily_stats, userId, "created", now)
  /\ last' = [OtherOp EXCEPT !.op = "report", !.user = userId,
                             !.again = (last.op = "report" /\ report.user = userId
                                        /\ report.options = options)]
  /\ UNCHANGED <<todos, nextId, now, ticks, updates, reopens, passVars, stats, cseen, extVars>>

\* getSummaryReport(db, userId, options)
getSummaryReport(userId, options) ==
  /\ report' = SummaryReport(todos, userId, options, now)
  /\ last' = [OtherOp EXCEPT !.op = "report", !.user = userId,
                             !.again = (last.op = "report" /\ report.user = userId
                                        /\ report.options = options)]
  /\ UNCHANGED <<todos, nextId, daily_stats, now, ticks, updates, reopens, passVars, stats, cseen, extVars>>

\* ------------------------------------------------------- report instances
\* 2026-03-05T10:00Z, the instant of the report requests.
ReportNow == (DaysPerYear + 63) * HoursPerDay + 10

\* created_at stamps on 2026-02-27, 2026-03-01 and 2026-03-03.
CreatedStamps ==
  { (DaysPerYear + 57) * HoursPerDay + 9, (DaysPerYear + 59) * HoursPerDay + 8,
    (DaysPerYear + 61) * HoursPerDay + 23 }

\* A row created at created; done is "no", "yes" (completed two hours later,
\* which for the third stamp is the next day) or "timed" (completed with 30
\* actual minutes logged).
ReportRow(userId, created, done) ==
  [ (NewTodo(userId, NoRepeatData) @@ [created_at |-> created])
      EXCEPT !.completed = IF done = "no" THEN 0 ELSE 1,
             !.completed_at = IF done = "no" THEN NULL ELSE created + 2,
             !.status = IF done = "no" THEN "todo" ELSE "done",
             !.actual_minutes = IF done = "timed" THEN 30 ELSE NULL ]

\* The daily_stats rows createTodo and updateTodo leave for the rows of tbl.
StatsOf(tbl) ==
  LET keys == {<<tbl[i].user_id, DateOf(tbl[i].created_at)>> : i \in DOMAIN tbl}
              \cup {<<tbl[i].user_id, DateOf(tbl[i].completed_at)>> :
                       i \in {j \in DOMAIN tbl : tbl[j].completed = 1}}
  IN [k \in keys |->
        [ created_count |-> Cardinality({i \in DOMAIN tbl : /\ tbl[i].user_id = k[1]
                                                            /\ DateOf(tbl[i].created_at) = k[2]}),
          completed_count |-> Cardinality({i \in DOMAIN tbl : /\ tbl[i].user_id = k[1]
                                                              /\ tbl[i].completed = 1
                                                              /\ DateOf(tbl[i].completed_at) = k[2]}) ]]

\* todos tables to report on: two rows of user 1 in the order of their
\* creation and a row of user 2.
ReportTable(c1, d1, c2, d2) ==
  <<ReportRow(1, c1, d1), ReportRow(1, c2, d2), ReportRow(2, c2, "yes")>>

ReportShapes ==
  {x \in [c1 : CreatedStamps, d1 : {"no", "timed"}, c2 : CreatedStamps, d2 : {"no", "yes"}] :
     x.c1 <= x.c2}

ReportTables == {ReportTable(x.c1, x.d1, x.c2, x.d2) : x \in ReportShapes}

\* The range options of the requests: dates before, in and after the data,
\* 2026-02-30 and 2026-13-01, which have the shape of a date and are none,
\* a string of another shape, and the option left out.
StartOptions ==
  { AbsentText, OtherText, IsoDate(2026, 2, 27), IsoDate(2026, 3, 4), IsoDate(2026, 3, 6),
    IsoDate(2026, 2, 30), IsoDate(2026, 13, 1) }
EndOptions ==
  { AbsentText, OtherText, IsoDate(2026, 3, 3), IsoDate(2026, 2, 30), IsoDate(2026, 13, 1) }
DaysOptions ==
  { AbsentDays, NotFinite, Finite(0), Finite(-30), Finite(29), Finite(70),
    Finite(10000), Finite(99990) }
ReportOptions == [start : StartOptions, end : EndOptions, days : DaysOptions]

\* The requests.  User 1 asks for every pair of start and end; days is
\* read only when start is not a date, and every days option is sent with
\* start left out and end left out or 2026-02-30, days 0 with the other
\* ranges as well.  User 2 sends start only.
ReportRequests ==
  {r \in Users \X ReportOptions :
     /\ r[2].days \notin {AbsentDays, Finite(0)} =>
           (r[2].start = AbsentText /\ r[2].end \in {AbsentText, IsoDate(2026, 2, 30)})
     /\ r[2].days = Finite(0) => r[2].start \in {AbsentText, IsoDate(2026, 2, 27)}
     /\ r[1] # 1 => (r[2].end = AbsentText /\ r[2].days = AbsentDays
                     /\ r[2].start \in {AbsentText, OtherText, IsoDate(2026, 2, 27)})}

InitReport ==
  /\ todos \in ReportTables
  /\ nextId = Len(todos) + 1
  /\ daily_stats = StatsOf(todos)
  /\ now = ReportNow
  /\ ticks = 0
  /\ updates = 0
  /\ last = OtherOp
  /\ reopens = [i \in DOMAIN todos |-> 0]
  /\ pc = IdleProcs
  /\ puser = [p \in Procs |-> 0]
  /\ pnow = [p \in Procs |-> 0]
  /\ presults = [p \in Procs |-> <<>>]
  /\ base = <<>>
  /\ stats = NoStats
  /\ report = NoReport
  /\ cseen = [p \in Procs |-> FALSE]
  /\ ExtInit

\* A behaviour asks for one report and may ask for it again.
NextReport ==
  \/ report.outcome = "none" /\ \E r \in ReportRequests : getSummaryReport(r[1], r[2])
  \/ report.outcome # "none" /\ getSummaryReport(report.user, report.options)
  \/ \E u \in Users : getStats(u)

SpecReport == InitReport /\ [][NextReport]_vars

\* ------------------------------------------- create, update, delete, read
\* Request bodies of PATCH /api/todos/:id that carry the minutes and the
\* archive flag as well; actual_minutes NULL is the field left out.
CompleteBody == [completed |-> "true", status |-> "done", actual_minutes |-> 30, archived |-> "absent"]
LogTimeBody == [completed |-> "absent", status |-> "absent", actual_minutes |-> 45, archived |-> "absent"]
ReopenBody == [completed |-> "false", status |-> "todo", actual_minutes |-> NULL, archived |-> "absent"]
ArchiveBody == [completed |-> "absent", status |-> "absent", actual_minutes |-> NULL, archived |-> "true"]
CrudUpdateInputs == {CompleteBody, LogTimeBody, ReopenBody, ArchiveBody}

CrudCreateRequests == { <<1, DailyData>>, <<2, NoRepeatData>> }

NextCrud ==
  \/ Tick
  \/ \E r \in CrudCreateRequests : createTodo(r[1], r[2])
  \/ \E u \in Users, id \in 1..MaxTodos, up \in CrudUpdateInputs : updateTodo(u, id, up)
  \/ \E u \in Users, id \in 1..MaxTodos : deleteTodo(u, id)
  \/ \E u \in Users : processRepeatTasks(u)
  \/ \E u \in Users : getStats(u)

SpecCrud == Init /\ [][NextCrud]_vars

\* ------------------------------------- tags, subtasks, comments, sharing
\* Everything but todos, last, the request context and the child tables.
restVars == <<nextId, daily_stats, now, ticks, updates, reopens, passVars, stats,
              report, cseen, createVars, listing>>

TagNames == {"home", "work"}
TagIds == 1..MaxTags

\* createTag(db, userId, name, color): UNIQUE(user_id, name) rejects a second
\* tag of the name, and the request fails.
createTag(userId, name) ==
  /\ sqlite_sequence.tags < MaxTags
  /\ IF \E t \in tags : t.user_id = userId /\ t.name = name
     THEN /\ last' = [OtherOp EXCEPT !.op = "tag failed", !.user = userId]
          /\ UNCHANGED <<tags, sqlite_sequence>>
     ELSE /\ tags' = tags \cup {[id |-> sqlite_sequence.tags + 1, user_id |-> userId, name |-> name]}
          /\ sqlite_sequence' = [sqlite_sequence EXCEPT !.tags = @ + 1]
          /\ last' = [OtherOp EXCEPT !.op = "tag", !.user = userId]
  /\ UNCHANGED <<todos, subtasks, comments, todo_tags, authVars, restVars>>

\* deleteTag(db, userId, tagId): DELETE FROM tags WHERE id = ? AND user_id =
\* ?; the links of the tag go with it (ON DELETE CASCADE).
deleteTag(userId, tagId) ==
  LET found == \E t \in tags : t.id = tagId /\ t.user_id = userId
  IN /\ tags' = {t \in tags : ~(t.id = tagId /\ t.user_id = userId)}
     /\ todo_tags' = IF found THEN {l \in todo_tags : l[2] # tagId} ELSE todo_tags
     /\ last' = [OtherOp EXCEPT !.op = "untag", !.user = userId, !.missing = ~found]
     /\ UNCHANGED <<todos, subtasks, comments, sqlite_sequence, authVars, restVars>>

\* createSubtask(db, todoId, title): sort_order is one more than the largest
\* of the task; the INSERT is rejected when the task does not exist (FOREIGN
\* KEY).  The caller is not a parameter.
createSubtask(todoId) ==
  LET orders == {s.sort_order : s \in {x \in subtasks : x.todo_id = todoId}}
      sortOrder == IF orders = {} THEN 1
                   ELSE (CHOOSE m \in orders : \A o \in orders : o <= m) + 1
  IN /\ sqlite_sequence.subtasks < MaxSubtasks
     /\ IF todoId \in TodoIds
        THEN /\ subtasks' = subtasks \cup {[id |-> sqlite_sequence.subtasks + 1, todo_id |-> todoId,
                                             completed |-> 0, sort_order |-> sortOrder]}
             /\ sqlite_sequence' = [sqlite_sequence EXCEPT !.subtasks = @ + 1]
             /\ last' = [OtherOp EXCEPT !.op = "subtask"]
        ELSE /\ last' = [OtherOp EXCEPT !.op = "subtask failed"]
             /\ UNCHANGED <<subtasks, sqlite_sequence>>
     /\ UNCHANGED <<todos, tags, comments, todo_tags, authVars, restVars>>

\* updateSubtask(db, subtaskId, updates): the row is looked up by id alone.
updateSubtask(subtaskId, upd) ==
  LET found == \E s \in subtasks : s.id = subtaskId
  IN /\ subtasks' = {IF s.id = subtaskId /\ upd.completed # "absent"
                     THEN [s EXCEPT !.completed = IF upd.completed = "true" THEN 1 ELSE 0]
                     ELSE s : s \in subtasks}
     /\ last' = [OtherOp EXCEPT !.op = "subtask update", !.missing = ~found]
     /\ UNCHANGED <<todos, tags, comments, todo_tags, sqlite_sequence, authVars, restVars>>

\* deleteSubtask(db, subtaskId): DELETE FROM subtasks WHERE id = ?
deleteSubtask(subtaskId) ==
  /\ subtasks' = {s \in subtasks : s.id # subtaskId}
  /\ last' = [OtherOp EXCEPT !.op = "subtask delete",
                             !.missing = ~(\E s \in subtasks : s.id = subtaskId)]
  /\ UNCHANGED <<todos, tags, comments, todo_tags, sqlite_sequence, authVars, restVars>>

\* createComment(db, todoId, userId, content): the INSERT is rejected when
\* the task does not exist (FOREIGN KEY); whose task it is is not looked at.
createComment(todoId, userId) ==
  /\ sqlite_sequence.comments < MaxComments
  /\ IF todoId \in TodoIds
     THEN /\ comments' = comments \cup {[id |-> sqlite_sequence.comments + 1, todo_id |-> todoId,
                                          user_id |-> userId]}
          /\ sqlite_sequence' = [sqlite_sequence EXCEPT !.comments = @ + 1]
          /\ last' = [OtherOp EXCEPT !.op = "comment", !.user = userId]
     ELSE /\ last' = [OtherOp EXCEPT !.op = "comment failed", !.user = userId]
          /\ UNCHANGED <<comments, sqlite_sequence>>
  /\ UNCHANGED <<todos, tags, subtasks, todo_tags, authVars, restVars>>

\* deleteComment(db, commentId, userId): DELETE FROM comments WHERE id = ?
\* AND user_id = ?
deleteComment(commentId, userId) ==
  /\ comments' = {c \in comments : ~(c.id = commentId /\ c.user_id = userId)}
  /\ last' = [OtherOp EXCEPT !.op = "comment delete", !.user = userId,
                             !.missing = ~(\E c \in comments : c.id = commentId /\ c.user_id = userId)]
  /\ UNCHANGED <<todos, tags, subtasks, todo_tags, sqlite_sequence, authVars, restVars>>

\* generateShareToken(): 16 random bytes, taken to differ from every token
\* drawn before; tokens are numbered in the order they are drawn.
generateShareToken == random.tokens + 1

\* Variant: the task is looked up by id alone.
shareTodo_anyOwner(userId, todoId) ==
  LET found == todoId \in TodoIds
  IN /\ IF found /\ todos[todoId].share_token = NULL
        THEN /\ random.tokens < MaxTokens
             /\ todos' = [todos EXCEPT ![todoId].share_token = generateShareToken]
             /\ random' = [random EXCEPT !.tokens = @ + 1]
             /\ last' = [OtherOp EXCEPT !.op = "share", !.user = userId,
                                        !.token = generateShareToken]
        ELSE /\ last' = [OtherOp EXCEPT !.op = "share", !.user = userId, !.missing = ~found,
                                        !.token = IF found THEN todos[todoId].share_token ELSE NULL]
             /\ UNCHANGED <<todos, random>>
     /\ UNCHANGED <<sessions, childVars, restVars>>

\* shareTodo(db, userId, todoId): null for a missing or foreign task, the
\* token the task has, or a new token written to the row.
shareTodo(userId, todoId) ==
  LET found == todoId \in TodoIds /\ todos[todoId].user_id = userId
  IN /\ IF found /\ todos[todoId].share_token = NULL
        THEN /\ random.tokens < MaxTokens
             /\ todos' = [todos EXCEPT ![todoId].share_token = generateShareToken]
             /\ random' = [random EXCEPT !.tokens = @ + 1]
             /\ last' = [OtherOp EXCEPT !.op = "share", !.user = userId,
                                        !.token = generateShareToken]
        ELSE /\ last' = [OtherOp EXCEPT !.op = "share", !.user = userId, !.missing = ~found,
                                        !.token = IF found THEN todos[todoId].share_token ELSE NULL]
             /\ UNCHANGED <<todos, random>>
     /\ UNCHANGED <<sessions, childVars, restVars>>

\* Variant: the UPDATE of unshareTodo changes nothing.
unshareTodo_keepsToken(userId, todoId) ==
  /\ last' = [OtherOp EXCEPT !.op = "unshare", !.user = userId,
                             !.missing = ~(todoId \in TodoIds /\ todos[todoId].user_id = userId)]
  /\ UNCHANGED <<todos, authVars, childVars, restVars>>

\* unshareTodo(db, userId, todoId): UPDATE todos SET share_token = NULL
\* WHERE id = ? AND user_id = ?; false when no row was changed.
unshareTodo(userId, todoId) ==
  LET found == todoId \in TodoIds /\ todos[todoId].user_id = userId
  IN /\ todos' = IF found THEN [todos EXCEPT ![todoId].share_token = NULL] ELSE todos
     /\ last' = [OtherOp EXCEPT !.op = "unshare", !.user = userId, !.missing = ~found]
     /\ UNCHANGED <<authVars, childVars, restVars>>

\* getTodoByShareToken(db, token): the ids of the rows WHERE share_token = ?
getTodoByShareToken(tbl, token) ==
  {i \in DOMAIN tbl : tbl[i].share_token # NULL /\ tbl[i].share_token = token}

\* ---------------------------------------------------- sessions and routes
\* 7 * 24 * 60 * 60 * 1000 ms, in hours
SessionHours == DaysPerWeek * HoursPerDay

\* new Date(t).toISOString(): "YYYY-MM-DDTHH:MM:SS.sssZ", kept as its date,
\* its separator and its time of day.
IsoString(t) == [date |-> DateOf(t), sep |-> "T", time |-> t % HoursPerDay]

\* datetime('now') of SQLite: "YYYY-MM-DD HH:MM:SS"
SqlDatetime(t) == [date |-> DateOf(t), sep |-> " ", time |-> t % HoursPerDay]

\* The code unit of a separator character.
CharCode(ch) == IF ch = "T" THEN 84 ELSE 32

\* a > b between two TEXT values of SQLite: the ten characters of the date
\* decide first, then the separator, then the time of day.
TextGreater(a, b) ==
  \/ a.date > b.date
  \/ a.date = b.date /\ CharCode(a.sep) > CharCode(b.sep)
  \/ a.date = b.date /\ a.sep = b.sep /\ a.time > b.time

\* generateSessionId(): 32 random bytes, taken to differ from every id drawn
\* before; ids are numbered in the order they are drawn.
generateSessionId == random.sessions + 1

\* GET /auth/github/callback for a GitHub account of user userId:
\* createSession(db, userId) inserts the row, the cookie is set.
createSession(userId) ==
  /\ random.sessions < MaxSessions
  /\ sessions' = sessions \cup {[id |-> generateSessionId, user_id |-> userId,
                                 expires_at |-> IsoString(now + SessionHours),
                                 created_at |-> now]}
  /\ random' = [random EXCEPT !.sessions = @ + 1]
  /\ last' = [OtherOp EXCEPT !.op = "login", !.user = userId, !.cookie = generateSessionId]
  /\ UNCHANGED <<todos, childVars, restVars>>

\* getSession(db, sessionId): SELECT * FROM sessions WHERE id = ? AND
\* expires_at > datetime('now')
getSession(tbl, sessionId, nowT) ==
  {s \in tbl : s.id = sessionId /\ TextGreater(s.expires_at, SqlDatetime(nowT))}

Routes ==
  { "GET /", "GET /auth/logout", "GET /share/:token",
    "GET /api/todos", "POST /api/todos", "PATCH /api/todos/:id", "DELETE /api/todos/:id",
    "GET /api/tags", "POST /api/tags", "DELETE /api/tags/:id",
    "GET /api/todos/:id/subtasks", "POST /api/todos/:id/subtasks",
    "PATCH /api/subtasks/:id", "DELETE /api/subtasks/:id",
    "GET /api/todos/:id/comments", "POST /api/todos/:id/comments",
    "DELETE /api/comments/:id",
    "POST /api/todos/:id/share", "DELETE /api/todos/:id/share", "GET /api/stats" }

ApiRoutes == Routes \ {"GET /", "GET /auth/logout", "GET /share/:token"}

\* The GET routes under /api that only read (GET /api/stats is getStats).
ApiReadRoutes ==
  {"GET /api/todos", "GET /api/tags", "GET /api/todos/:id/subtasks",
   "GET /api/todos/:id/comments"}

\* A request has passed authMiddleware and its handler has not run yet.
Serving == last.op = "request"

\* authMiddleware: the user of the session the cookie names is put in the
\* context (0: none; cookie 0: no cookie), then the handler runs.
authMiddleware(cookie, route) ==
  LET session == IF cookie = 0 THEN {} ELSE getSession(sessions, cookie, now)
  IN /\ ~Serving
     /\ last' = [OtherOp EXCEPT !.op = "request", !.route = route, !.cookie = cookie,
                                !.user = IF session = {} THEN 0
                                         ELSE (CHOOSE s \in session : TRUE).user_id]
     /\ UNCHANGED <<todos, authVars, childVars, restVars>>

\* The handler answers the request (a page, a redirect, a list, an error)
\* and writes nothing.
Render(op) ==
  /\ last' = [OtherOp EXCEPT !.op = op, !.cookie = last.cookie]
  /\ UNCHANGED <<todos, authVars, childVars, restVars>>

\* Variant: the page load of a visitor runs the processor for user 1.
GetIndex_anyVisitor ==
  /\ Serving /\ last.route = "GET /"
  /\ processRepeatTasks(IF last.user # 0 THEN last.user ELSE 1)

\* app.get("/"): processRepeatTasks for the signed-in user, then the page.
GetIndex ==
  /\ Serving /\ last.route = "GET /"
  /\ IF last.user # 0 THEN processRepeatTasks(last.user) ELSE Render("page")

\* app.get("/auth/logout"): deleteSession(db, session.id) when the request
\* carries a session.
Logout ==
  /\ Serving /\ last.route = "GET /auth/logout"
  /\ sessions' = IF last.user # 0 THEN {s \in sessions : s.id # last.cookie} ELSE sessions
  /\ last' = [OtherOp EXCEPT !.op = "logout", !.cookie = last.cookie]
  /\ UNCHANGED <<todos, random, childVars, restVars>>

\* app.get("/share/:token"): getTodoByShareToken, for any visitor.
SharePage ==
  /\ Serving /\ last.route = "GET /share/:token"
  /\ Render("share page")

\* Variant: the handlers of /api run their query for user 1 when the
\* request has no user.
Unauthorized_asUserOne ==
  /\ Serving /\ last.route \in ApiRoutes /\ last.user = 0
  /\ \E id \in 1..MaxTodos : deleteTodo(1, id)

\* if (!user) return c.json({ error: "Unauthorized" }, 401), the first
\* statement of every handler under /api.
Unauthorized ==
  /\ Serving /\ last.route \in ApiRoutes /\ last.user = 0
  /\ Render("401")

\* A handler of /api reached with a user.
Authorized(route) == Serving /\ last.route = route /\ last.user # 0

ApiRead == Serving /\ last.route \in ApiReadRoutes /\ last.user # 0 /\ Render("read")

ApiCreateTodo(data) == Authorized("POST /api/todos") /\ createTodo(last.user, data)
ApiUpdateTodo(id, upd) == Authorized("PATCH /api/todos/:id") /\ updateTodo(last.user, id, upd)
ApiDeleteTodo(id) == Authorized("DELETE /api/todos/:id") /\ deleteTodo(last.user, id)
ApiCreateTag(name) == Authorized("POST /api/tags") /\ createTag(last.user, name)
ApiDeleteTag(id) == Authorized("DELETE /api/tags/:id") /\ deleteTag(last.user, id)
ApiCreateSubtask(id) == Authorized("POST /api/todos/:id/subtasks") /\ createSubtask(id)
ApiUpdateSubtask(id, upd) == Authorized("PATCH /api/subtasks/:id") /\ updateSubtask(id, upd)
ApiDeleteSubtask(id) == Authorized("DELETE /api/subtasks/:id") /\ deleteSubtask(id)
ApiCreateComment(id) == Authorized("POST /api/todos/:id/comments") /\ createComment(id, last.user)
ApiDeleteComment(id) == Authorized("DELETE /api/comments/:id") /\ deleteComment(id, last.user)
ApiShare(id) == Authorized("POST /api/todos/:id/share") /\ shareTodo(last.user, id)
ApiUnshare(id) == Authorized("DELETE /api/todos/:id/share") /\ unshareTodo(last.user, id)
ApiStats == Authorized("GET /api/stats") /\ getStats(last.user)

\* The requests of the study of sessions: a session of user 1 that is a day
\* and two hours old is on file; every route is asked for with no cookie
\* (0) or with the cookie of a session id.
OldSession ==
  [id |-> 1, user_id |-> 1, expires_at |-> IsoString(StartTime - 26 + SessionHours),
   created_at |-> StartTime - 26]

Cookies == 0..MaxSessions

SubtaskBodies == {[completed |-> "true"]}

InitAuth ==
  /\ todos = <<>>
  /\ nextId = 1
  /\ daily_stats = <<>>
  /\ now = StartTime
  /\ ticks = 0
  /\ updates = 0
  /\ last = OtherOp
  /\ reopens = <<>>
  /\ pc = IdleProcs
  /\ puser = [p \in Procs |-> 0]
  /\ pnow = [p \in Procs |-> 0]
  /\ presults = [p \in Procs |-> <<>>]
  /\ base = <<>>
  /\ stats = NoStats
  /\ report = NoReport
  /\ cseen = [p \in Procs |-> FALSE]
  /\ sessions = {OldSession}
  /\ random = [sessions |-> 1, tokens |-> 0]
  /\ tags = {}
  /\ subtasks = {}
  /\ comments = {}
  /\ todo_tags = {}
  /\ sqlite_sequence = [tags |-> 0, subtasks |-> 0, comments |-> 0]
  /\ cins = [p \in Procs |-> 0]
  /\ ctodo = [p \in Procs |-> 0]
  /\ ctagIds = [p \in Procs |-> {}]
  /\ listing = NoListing

\* The routes asked for while sessions come and go.
AuthRoutes ==
  {"GET /", "GET /auth/logout", "POST /api/todos", "PATCH /api/todos/:id",
   "DELETE /api/todos/:id"}

NextAuth ==
  \/ ~Serving /\ Tick
  \/ ~Serving /\ \E u \in Users : createSession(u)
  \/ \E cookie \in Cookies, route \in AuthRoutes : authMiddleware(cookie, route)
  \/ GetIndex
  \/ Logout
  \/ Unauthorized
  \/ ApiCreateTodo(DailyData)
  \/ \E id \in 1..MaxTodos, upd \in ToggleInputs : ApiUpdateTodo(id, upd)
  \/ \E id \in 1..MaxTodos : ApiDeleteTodo(id)

SpecAuth == InitAuth /\ [][NextAuth]_vars

\* ------------------------------------------------------ the routes of /api
\* The sessions on file while the routes are studied: one of user 1, and
\* one of user 2 that ran out a day ago.
ApiSessions ==
  { [id |-> 1, user_id |-> 1, expires_at |-> IsoString(StartTime - 2 + SessionHours),
     created_at |-> StartTime - 2],
    [id |-> 2, user_id |-> 2, expires_at |-> IsoString(StartTime - HoursPerDay),
     created_at |-> StartTime - HoursPerDay - SessionHours] }

\* No cookie (0), the two sessions on file, an id that was never issued.
ApiCookies == 0..3

\* The bodies of PATCH /api/todos/:id sent here: the tag links only.
TagBody == [completed |-> "absent", status |-> "absent", tagIds |-> {1}]

InitApi ==
  /\ todos = <<>>
  /\ nextId = 1
  /\ daily_stats = <<>>
  /\ now = StartTime
  /\ ticks = 0
  /\ updates = 0
  /\ last = OtherOp
  /\ reopens = <<>>
  /\ pc = IdleProcs
  /\ puser = [p \in Procs |-> 0]
  /\ pnow = [p \in Procs |-> 0]
  /\ presults = [p \in Procs |-> <<>>]
  /\ base = <<>>
  /\ stats = NoStats
  /\ report = NoReport
  /\ cseen = [p \in Procs |-> FALSE]
  /\ sessions = ApiSessions
  /\ random = [sessions |-> 2, tokens |-> 0]
  /\ tags = {}
  /\ subtasks = {}
  /\ comments = {}
  /\ todo_tags = {}
  /\ sqlite_sequence = [tags |-> 0, subtasks |-> 0, comments |-> 0]
  /\ cins = [p \in Procs |-> 0]
  /\ ctodo = [p \in Procs |-> 0]
  /\ ctagIds = [p \in Procs |-> {}]
  /\ listing = NoListing

\* Each table gets one row at most here.
NextApi ==
  \/ \E cookie \in ApiCookies, route \in Routes : authMiddleware(cookie, route)
  \/ GetIndex
  \/ Logout
  \/ SharePage
  \/ Unauthorized
  \/ ApiRead
  \/ nextId = 1 /\ ApiCreateTodo(NoRepeatData)
  \/ ApiUpdateTodo(1, TagBody)
  \/ ApiDeleteTodo(1)
  \/ sqlite_sequence.tags = 0 /\ ApiCreateTag("home")
  \/ ApiDeleteTag(1)
  \/ sqlite_sequence.subtasks = 0 /\ ApiCreateSubtask(1)
  \/ \E upd \in SubtaskBodies : ApiUpdateSubtask(1, upd)
  \/ ApiDeleteSubtask(1)
  \/ sqlite_sequence.comments = 0 /\ ApiCreateComment(1)
  \/ ApiDeleteComment(1)
  \/ ApiShare(1)
  \/ ApiUnshare(1)
  \/ ApiStats

SpecApi == InitApi /\ [][NextApi]_vars

\* ------------------------------------------------ sharing, the calls alone
\* The db functions that take a user and a task id, called for every user
\* and every id, tasks that do not exist included.
ShareUpdateInputs == {CompleteBody, TagBody}

NextShare ==
  \/ \E r \in CrudCreateRequests : createTodo(r[1], r[2])
  \/ \E u \in Users, id \in 1..MaxTodos, up \in ShareUpdateInputs : updateTodo(u, id, up)
  \/ \E u \in Users, id \in 1..MaxTodos : deleteTodo(u, id)
  \/ \E u \in Users, id \in 1..MaxTodos : shareTodo(u, id)
  \/ \E u \in Users, id \in 1..MaxTodos : unshareTodo(u, id)

SpecShare == Init /\ [][NextShare]_vars

\* --------------------------------------- two signed-in users and the rows
\* that hang off tasks
ChildSessions ==
  { [id |-> u, user_id |-> u, expires_at |-> IsoString(StartTime - u + SessionHours),
     created_at |-> StartTime - u] : u \in Users }

ChildRoutes ==
  { "POST /api/todos", "PATCH /api/todos/:id", "DELETE /api/todos/:id",
    "POST /api/todos/:id/subtasks", "PATCH /api/subtasks/:id", "DELETE /api/subtasks/:id",
    "POST /api/todos/:id/comments", "DELETE /api/comments/:id" }

InitChild ==
  /\ todos = <<>>
  /\ nextId = 1
  /\ daily_stats = <<>>
  /\ now = StartTime
  /\ ticks = 0
  /\ updates = 0
  /\ last = OtherOp
  /\ reopens = <<>>
  /\ pc = IdleProcs
  /\ puser = [p \in Procs |-> 0]
  /\ pnow = [p \in Procs |-> 0]
  /\ presults = [p \in Procs |-> <<>>]
  /\ base = <<>>
  /\ stats = NoStats
  /\ report = NoReport
  /\ cseen = [p \in Procs |-> FALSE]
  /\ sessions = ChildSessions
  /\ random = [sessions |-> Cardinality(Users), tokens |-> 0]
  /\ tags = {}
  /\ subtasks = {}
  /\ comments = {}
  /\ todo_tags = {}
  /\ sqlite_sequence = [tags |-> 0, subtasks |-> 0, comments |-> 0]
  /\ cins = [p \in Procs |-> 0]
  /\ ctodo = [p \in Procs |-> 0]
  /\ ctagIds = [p \in Procs |-> {}]
  /\ listing = NoListing

NextChild ==
  \/ \E cookie \in Users, route \in ChildRoutes : authMiddleware(cookie, route)
  \/ ApiCreateTodo(NoRepeatData)
  \/ \E id \in 1..MaxTodos : ApiUpdateTodo(id, TagBody)
  \/ \E id \in 1..MaxTodos : ApiDeleteTodo(id)
  \/ \E id \in 1..MaxTodos : ApiCreateSubtask(id)
  \/ \E id \in 1..MaxSubtasks, upd \in SubtaskBodies : ApiUpdateSubtask(id, upd)
  \/ \E id \in 1..MaxSubtasks : ApiDeleteSubtask(id)
  \/ \E id \in 1..MaxTodos : ApiCreateComment(id)
  \/ \E id \in 1..MaxComments : ApiDeleteComment(id)

SpecChild == InitChild /\ [][NextChild]_vars

\* ----------------------------------- updateTodo while a pass is under way
\* A daily task of user 1 that was completed 26 hours ago with the body of
\* toggleComplete, and the daily_stats row that left.
DoneYesterday ==
  [NewTodo(1, DailyData) EXCEPT !.completed = 1, !.completed_at = StartTime - 26,
                                !.status = "done"]

InitLost ==
  /\ todos = <<DoneYesterday>>
  /\ nextId = 2
  /\ daily_stats = UpdatedStats(updateDailyStats(<<>>, 1, "created", StartTime - 26),
                                NewTodo(1, DailyData), 1,
                                [completed |-> "true", status |-> "done"], StartTime - 26)
  /\ now = StartTime
  /\ ticks = 0
  /\ updates = 0
  /\ last = OtherOp
  /\ reopens = <<0>>
  /\ pc = IdleProcs
  /\ puser = [p \in Procs |-> 0]
  /\ pnow = [p \in Procs |-> 0]
  /\ presults = [p \in Procs |-> <<>>]
  /\ base = <<>>
  /\ stats = NoStats
  /\ report = NoReport
  /\ cseen = [p \in Procs |-> FALSE]
  /\ ExtInit

\* PATCH requests are served at any moment of a pass.
NextLost ==
  \/ Tick
  \/ \E u \in Users, id \in 1..MaxTodos, up \in ToggleInputs : updateTodo(u, id, up)
  \/ \E p \in Procs, u \in Users : PassStart(p, u)
  \/ \E p \in Procs : PassSelect(p)
  \/ \E p \in Procs : PassIter(p)
  \/ \E p \in Procs : PassReturn(p)
  \/ PassRespond

SpecLost == InitLost /\ [][NextLost]_vars

\* ------------------------------------------------ the bodies of a PATCH
\* One body for each field of updates alone, and the body saveTodo of the
\* client sends, which carries repeat_type and repeat_interval as well;
\* the last one names columns updateTodo does not know.
NoToggle == [completed |-> "absent", status |-> "absent"]

PatchBodies ==
  { [completed |-> "true", status |-> "absent"],
    [completed |-> "false", status |-> "absent"],
    [completed |-> "absent", status |-> "done"],
    [completed |-> "absent", status |-> "doing"],
    NoToggle @@ [priority |-> 3],
    NoToggle @@ [due_date |-> NULL],
    NoToggle @@ [actual_minutes |-> 45],
    NoToggle @@ [archived |-> "true"],
    NoToggle @@ [priority |-> 1, due_date |-> 400 * HoursPerDay, actual_minutes |-> NULL,
                 repeat_type |-> "weekly", repeat_interval |-> 3, tagIds |-> {1}],
    NoToggle @@ [user_id |-> 2, share_token |-> NULL, repeat_type |-> NoRepeat] }

NextPatch ==
  \/ Tick
  \/ createTodo(1, DailyData)
  \/ \E id \in 1..MaxTodos : shareTodo(1, id)
  \/ \E u \in Users, id \in 1..MaxTodos, up \in PatchBodies : updateTodo(u, id, up)

SpecPatch == Init /\ [][NextPatch]_vars

\* ----------------------------------------------------------------- getTodos
\* text LIKE '%term%' for a term of plain lower-case letters: term occurs in
\* text.  Texts are sequences of characters.
Like(text, term) ==
  \E k \in 0..(Len(text) - Len(term)) : \A j \in 1..Len(term) : text[k + j] = term[j]

\* getTodoTags(db, todoId): the tags joined to the links of the task.
getTodoTags(todoId) == {t \in tags : <<todoId, t.id>> \in todo_tags}

\* A filter field that is not supplied: undefined, and for the fields the
\* code tests for truth also '' and 0.
NoText == <<>>

\* The WHERE clause of getTodos for one row, and the tagId filter applied
\* to the rows read.
Selected(row, id, userId, filter) ==
  /\ row.user_id = userId
  /\ row.archived = (IF filter.archived = "true" THEN 1 ELSE 0)
  /\ filter.status \notin {"absent", ""} => row.status = filter.status
  /\ filter.priority # NULL => row.priority = filter.priority
  /\ filter.dueBefore # NULL => (row.due_date # NULL /\ row.due_date <= filter.dueBefore)
  /\ filter.dueAfter # NULL => (row.due_date # NULL /\ row.due_date >= filter.dueAfter)
  /\ filter.search # NoText => (Like(row.title, filter.search) \/ Like(row.description, filter.search))
  /\ filter.tagId \notin {NULL, 0} => \E t \in getTodoTags(id) : t.id = filter.tagId

\* Variant: a task needs to pass one of the supplied filters only.
getTodos_anyFilter(userId, filter) ==
  /\ listing' = [user |-> userId, filter |-> filter,
                 ids |-> {i \in TodoIds :
                            /\ todos[i].user_id = userId
                            /\ \/ Selected(todos[i], i, userId, filter)
                               \/ filter.status \notin {"absent", ""} /\ todos[i].status = filter.status
                               \/ filter.priority # NULL /\ todos[i].priority = filter.priority}]
  /\ last' = [OtherOp EXCEPT !.op = "list", !.user = userId]
  /\ UNCHANGED <<todos, authVars, childVars, nextId, daily_stats, now, ticks, updates, reopens,
                 passVars, stats, report, cseen, createVars>>

\* getTodos(db, userId, filter): the ids of the tasks returned.
getTodos(userId, filter) ==
  /\ listing' = [user |-> userId, filter |-> filter,
                 ids |-> {i \in TodoIds : Selected(todos[i], i, userId, filter)}]
  /\ last' = [OtherOp EXCEPT !.op = "list", !.user = userId]
  /\ UNCHANGED <<todos, authVars, childVars, nextId, daily_stats, now, ticks, updates, reopens,
                 passVars, stats, report, cseen, createVars>>

\* The tables getTodos is run on: four tasks of user 1 and one of user 2
\* that differ in status, priority, due date, archive flag, title and tags.
ListDue == 370 * HoursPerDay

ListRow(userId, status, priority, due, archived, title, description) ==
  [ (NewTodo(userId, NoRepeatData) @@ [title |-> title, description |-> description])
      EXCEPT !.status = status, !.priority = priority, !.due_date = due,
             !.archived = archived,
             !.completed = IF status = "done" THEN 1 ELSE 0,
             !.completed_at = IF status = "done" THEN StartTime - 1 ELSE NULL ]

ListTable(a, s) ==
  << ListRow(1, "todo", 2, ListDue, 0, <<"m", "i", "l", "k">>, NoText),
     ListRow(1, s, 2, ListDue + HoursPerDay, a, <<"t", "e", "a">>, <<"m", "i", "l", "k">>),
     ListRow(1, "done", 0, NULL, 0, <<"t", "e", "a">>, NoText),
     ListRow(2, "todo", 2, ListDue, 0, <<"m", "i", "l", "k">>, NoText),
     ListRow(1, "todo", 0, ListDue - HoursPerDay, 1 - a, <<"i", "l">>, NoText) >>

ListTables == {ListTable(a, s) : a \in {0, 1}, s \in {"todo", "done"}}

ListTags == {[id |-> 1, user_id |-> 1, name |-> "home"], [id |-> 2, user_id |-> 1, name |-> "work"]}

ListLinks == {{<<1, 1>>, <<2, 2>>}, {<<1, 1>>, <<2, 1>>, <<3, 2>>, <<4, 1>>}}

\* The filters asked for: every field absent or set, status '' and tagId 0
\* included.
Filters ==
  [ archived  : {"absent", "true", "false"},
    status    : {"absent", "", "todo", "done"},
    priority  : {NULL, 0, 2},
    dueBefore : {NULL, ListDue},
    dueAfter  : {NULL, ListDue},
    search    : {NoText, <<"i", "l">>},
    tagId     : {NULL, 0, 1} ]

InitList ==
  /\ todos \in ListTables
  /\ nextId = Len(todos) + 1
  /\ daily_stats = <<>>
  /\ now = StartTime
  /\ ticks = 0
  /\ updates = 0
  /\ last = OtherOp
  /\ reopens = [i \in DOMAIN todos |-> 0]
  /\ pc = IdleProcs
  /\ puser = [p \in Procs |-> 0]
  /\ pnow = [p \in Procs |-> 0]
  /\ presults = [p \in Procs |-> <<>>]
  /\ base = <<>>
  /\ stats = NoStats
  /\ report = NoReport
  /\ cseen = [p \in Procs |-> FALSE]
  /\ sessions = {}
  /\ random = [sessions |-> 0, tokens |-> 0]
  /\ tags = ListTags
  /\ subtasks = {}
  /\ comments = {}
  /\ todo_tags \in ListLinks
  /\ sqlite_sequence = [tags |-> Cardinality(ListTags), subtasks |-> 0, comments |-> 0]
  /\ cins = [p \in Procs |-> 0]
  /\ ctodo = [p \in Procs |-> 0]
  /\ ctagIds = [p \in Procs |-> {}]
  /\ listing = NoListing

\* One listing per run: a listing reads the tables only, so a second one
\* starts from the same tables.
NextList == listing = NoListing /\ \E u \in Users, f \in Filters : getTodos(u, f)

SpecList == InitList /\ [][NextList]_vars

\* ================================================================== claims
Reopened(row) == [row EXCEPT !.completed = 0, !.completed_at = NULL, !.status = "todo"]

\* C1: in every state reached by createTodo, updateTodo and
\* processRepeatTasks, every task has completed = 1 exactly when its
\* completed_at is not NULL.
C1_CompletedIffStamped ==
  \A i \in TodoIds : (todos[i].completed = 1) <=> (todos[i].completed_at # NULL)

\* A task completed through {completed: true} alone next to a task that a
\* pass has reopened.
C1_Witness ==
  \E i, j \in TodoIds :
     /\ todos[i].completed = 1 /\ todos[i].status # "done"
     /\ reopens[j] = 1 /\ todos[j].completed = 0

\* C2: every task with status = 'done' has completed = 1.
C2_DoneImpliesCompleted ==
  \A i \in TodoIds : todos[i].status = "done" => todos[i].completed = 1

\* C3: a pass reopens a completed daily (weekly) task of its user exactly
\* when the whole days (weeks) elapsed since completed_at, rounded down, are
\* at least repeat_interval.
C3_DailyWeeklyThreshold ==
  [][last'.op = "pass" =>
       \A i \in TodoIds :
          (todos[i].user_id = last'.user /\ todos[i].completed = 1
             /\ todos[i].repeat_type \in {"daily", "weekly"}) =>
            LET unit == IF todos[i].repeat_type = "daily" THEN 24 ELSE 7 * 24
                elapsed == (now - todos[i].completed_at) \div unit
            IN (todos'[i] = Reopened(todos[i]) /\ todos'[i] # todos[i])
                 <=> (elapsed >= todos[i].repeat_interval)]_vars

\* A pass has reopened a daily task of interval 1 completed 25 hours before
\* and left completed one completed 23 hours before.
C3_Witness ==
  /\ last.op = "pass"
  /\ \E r \in last.reopened :
        /\ todos[r[1]].repeat_type = "daily" /\ todos[r[1]].repeat_interval = 1
        /\ todos[r[1]].completed = 0
        /\ now - r[2] = 25
  /\ \E j \in TodoIds :
        /\ todos[j].user_id = last.user /\ todos[j].repeat_type = "daily"
        /\ todos[j].repeat_interval = 1 /\ todos[j].completed = 1
        /\ now - todos[j].completed_at = 23

\* C4: a pass reopens a completed monthly task of its user exactly when
\* (nowYear - compYear) * 12 + (nowMonth - compMonth) >= repeat_interval,
\* whatever the days of the month; so a task of interval 1 completed on
\* January 31 is due on February 1.
C4_MonthlyThreshold ==
  [][last'.op = "pass" =>
       /\ \A i \in TodoIds :
            (todos[i].user_id = last'.user /\ todos[i].completed = 1
               /\ todos[i].repeat_type = "monthly") =>
              ((todos'[i] = Reopened(todos[i]) /\ todos'[i] # todos[i])
                 <=> ((FullYear(now) - FullYear(todos[i].completed_at)) * 12
                        + (Month(now) - Month(todos[i].completed_at))
                      >= todos[i].repeat_interval))
       /\ FullYear(30 * 24) = 2025 /\ Month(30 * 24) = 0
       /\ FullYear(31 * 24) = 2025 /\ Month(31 * 24) = 1
       /\ ShouldRepeat([completed_at |-> 30 * 24, repeat_type |-> "monthly",
                        repeat_interval |-> 1], 31 * 24)]_vars

\* A pass has reopened a monthly task less than one day after its
\* completion, on the first day of the next month (and year).
C4_Witness ==
  /\ last.op = "pass"
  /\ \E r \in last.reopened :
        /\ todos[r[1]].repeat_type = "monthly" /\ todos[r[1]].completed = 0
        /\ now - r[2] < 24
        /\ Month(r[2]) = 11 /\ Month(now) = 0 /\ FullYear(now) = FullYear(r[2]) + 1

\* C5: a pass creates and deletes no row and writes no daily_stats; each task
\* is either untouched or was a completed recurring task of the pass's user
\* that met its threshold and now differs from its previous value in
\* completed = 0, completed_at = NULL and status = 'todo' only.
C5_PassFrame ==
  [][last'.op = "pass" =>
       /\ DOMAIN todos' = DOMAIN todos
       /\ nextId' = nextId
       /\ daily_stats' = daily_stats
       /\ \A i \in TodoIds :
            \/ todos'[i] = todos[i]
            \/ /\ todos'[i] = Reopened(todos[i])
               /\ todos'[i].due_date = todos[i].due_date
               /\ todos'[i].last_repeated_at = todos[i].last_repeated_at
               /\ todos'[i].repeat_type = todos[i].repeat_type
               /\ todos'[i].repeat_interval = todos[i].repeat_interval
               /\ todos[i].user_id = last'.user
               /\ todos[i].completed = 1
               /\ todos[i].repeat_type # NoRepeat
               /\ ShouldRepeat(todos[i], now)]_vars

\* A pass has reopened a task that has a due date while a due recurring task
\* of another user stays completed.
C5_Witness ==
  /\ last.op = "pass"
  /\ \E r \in last.reopened :
        todos[r[1]].due_date # NULL /\ todos[r[1]].completed = 0
  /\ \E j \in TodoIds :
        /\ todos[j].user_id # last.user /\ todos[j].completed = 1
        /\ ShouldRepeat(todos[j], now)

\* C6: a pass that directly follows a pass of the same user changes no task
\* and resets nothing.
C6_SecondPassNoOp ==
  [][(last.op = "pass" /\ last'.op = "pass" /\ last'.user = last.user) =>
       (todos' = todos /\ last'.reopened = {} /\ now' = now)]_vars

\* Two passes in a row, the first of which reopened a task.
C6_Witness ==
  last.op = "pass" /\ last.again /\ last.before # {} /\ last.reopened = {}

\* C7: a task that a pass has reopened and that its user has not written
\* since is reset by no later pass: it is reset at most once, and every
\* later pass leaves the row as it is.
C7_ReopenedOnce ==
  /\ [](\A i \in TodoIds : reopens[i] <= 1)
  /\ [][last'.op = "pass" =>
          \A i \in TodoIds :
             reopens[i] >= 1 => (todos'[i] = todos[i] /\ reopens'[i] = reopens[i])]_vars

\* A later pass of the owner, at a later instant, has left a reopened task
\* alone.
C7_Witness ==
  /\ last.op = "pass" /\ last.reopened = {}
  /\ \E i \in TodoIds :
        /\ reopens[i] = 1 /\ todos[i].user_id = last.user
        /\ todos[i].completed = 0
  /\ ticks = MaxTicks

\* C8: when two interleaved passes of the same user have both returned,
\* every task is as one pass on the table they started from (at the later
\* of their two instants) leaves it, and completed = 1 iff completed_at is
\* not NULL.
C8_RaceEqualsOnePass ==
  ((\A p \in Procs : pc[p] = "done") /\ puser[1] = puser[2]) =>
     LET u == puser[1]
         at == IF pnow[1] >= pnow[2] THEN pnow[1] ELSE pnow[2]
     IN /\ DOMAIN todos = DOMAIN base
        /\ \A i \in DOMAIN base :
              todos[i] = IF base[i].user_id = u /\ base[i].completed = 1
                            /\ base[i].repeat_type # NoRepeat /\ ShouldRepeat(base[i], at)
                         THEN Reopened(base[i]) ELSE base[i]
        /\ \A i \in TodoIds : (todos[i].completed = 1) <=> (todos[i].completed_at # NULL)

\* Both passes have returned after each issued the reset of the same row.
C8_Witness ==
  /\ \A p \in Procs : pc[p] = "done"
  /\ puser[1] = puser[2]
  /\ \E i \in TodoIds : reopens[i] = 2 /\ todos[i].completed = 0

\* C9: when the reset of one task fails, the pass still examines and
\* reopens every later task that qualifies.
C9_ContinueOnError ==
  \A p \in Procs :
     pc[p] = "failed" =>
       \A k \in 1..Len(presults[p]) :
          ShouldRepeat(presults[p][k], pnow[p]) =>
             todos[presults[p][k].id].completed = 0

\* C10: the streak getStats returns is the number of rows, among the (at
\* most 30) rows of the user with the latest dates, that have
\* completed_count > 0 and are not older than a row with completed_count = 0;
\* it is 0 when the latest row has no completion, never above 30, and the
\* number of rows taken when all of them have completions, whatever their
\* dates.
C10_Streak ==
  stats.user # 0 =>
    LET u == stats.user
        dates == StatDates(daily_stats, u)
        top == {d \in dates : Cardinality({e \in dates : e > d}) < 30}
        done(d) == daily_stats[<<u, d>>].completed_count > 0
        lead == {d \in top : \A e \in top : e >= d => done(e)}
    IN /\ stats.streak = Cardinality(lead)
       /\ stats.streak <= 30
       /\ (\E d \in top : ~done(d) /\ \A e \in top : e <= d) => stats.streak = 0
       /\ (\A d \in top : done(d)) => stats.streak = Cardinality(top)

\* getStats has returned a streak of 30 for a user with more than 30 rows,
\* the latest before today, with missing days between them.
C10_Witness ==
  /\ stats.user = 1
  /\ stats.streak = 30
  /\ Cardinality(StatDates(daily_stats, 1)) > 30
  /\ \A d \in StatDates(daily_stats, 1) : d < Today
  /\ \E d \in StatDates(daily_stats, 1) :
        /\ d - 1 \notin StatDates(daily_stats, 1)
        /\ \E e \in StatDates(daily_stats, 1) : e < d
        /\ Cardinality({e \in StatDates(daily_stats, 1) : e > d}) < 29

\* The user has no row in todos.
NoTasks(userId) == \A i \in TodoIds : todos[i].user_id # userId

\* The fields of a getStats result that are computed from todos are the
\* ones of an empty table.
TaskFieldsZero(r) ==
  /\ r.totalTodos = 0
  /\ r.completedToday = 0
  /\ r.completedThisWeek = 0
  /\ r.avgCompletionTime = 0
  /\ r.byPriority = {}
  /\ r.byStatus = {}

\* C11 as stated: getStats for a user who has no task returns zero for
\* totalTodos, completedToday, completedThisWeek, streak and
\* avgCompletionTime and empty byPriority and byStatus.
C11_AllZero ==
  (last.op = "stats" /\ NoTasks(last.user)) =>
     (TaskFieldsZero(stats) /\ stats.streak = 0)

\* C11, amended: getStats for a user who has no task returns zero for
\* totalTodos, completedToday, completedThisWeek and avgCompletionTime and
\* empty byPriority and byStatus; streak is the streak of the user's
\* daily_stats rows, which deleteTodo leaves in place.
C11_ZeroButStreak ==
  (last.op = "stats" /\ NoTasks(last.user)) =>
     /\ stats.user = last.user
     /\ TaskFieldsZero(stats)
     /\ stats.streak = Streak(RecentDays(daily_stats, last.user))

\* getStats answered a user whose tasks have all been deleted, while the
\* other user still has one, and reported a streak.
C11_Witness ==
  /\ last.op = "stats"
  /\ NoTasks(last.user)
  /\ \E k \in DOMAIN daily_stats : k[1] = last.user /\ daily_stats[k].created_count > 0
  /\ \E i \in TodoIds : todos[i].user_id # last.user
  /\ stats.streak > 0

\* Mean, rounded to the nearest integer, of actual_minutes over the user's
\* completed rows that have one; 0 when there is none.
CompletedMean(userId) ==
  LET ids == {i \in TodoIds : /\ todos[i].user_id = userId
                              /\ todos[i].completed = 1
                              /\ todos[i].actual_minutes # NULL}
  IN IF ids = {} THEN 0
     ELSE RoundDiv(SumOver(ids, [i \in ids |-> todos[i].actual_minutes]), Cardinality(ids))

\* C12: avgCompletionTime of a getStats result is the rounded mean of
\* actual_minutes over the user's completed tasks that have a value (tasks
\* that are not completed do not contribute), 0 when there is none.
C12_AvgOverCompleted ==
  last.op = "stats" => stats.avgCompletionTime = CompletedMean(last.user)

\* C20: no step removes a daily_stats row or lowers its created_count or
\* completed_count.
C20_StatsNeverShrink ==
  [][\A k \in DOMAIN daily_stats :
        /\ k \in DOMAIN daily_stats'
        /\ daily_stats'[k].created_count >= daily_stats[k].created_count
        /\ daily_stats'[k].completed_count >= daily_stats[k].completed_count]_vars

\* A task that was completed has been deleted: its user has a daily_stats
\* row that counts a completion, and no completed task.
C20_Witness ==
  /\ last.op = "delete"
  /\ \E k \in DOMAIN daily_stats : k[1] = last.user /\ daily_stats[k].completed_count > 0
  /\ \A i \in TodoIds : todos[i].user_id = last.user => todos[i].completed = 0

\* The string is the date of a day of the calendar.
IsCalendarDate(iso) ==
  /\ iso.kind = "ymd"
  /\ iso.m \in 1..MonthsPerYear
  /\ iso.d >= 1
  /\ MonthStart[iso.m] + iso.d <= (IF iso.m = MonthsPerYear THEN DaysPerYear
                                   ELSE MonthStart[iso.m + 1])

\* C13: perDay of every report lists the calendar dates from range.start to
\* range.end inclusive, each one day after the previous, and perDay.length
\* = range.days = the inclusive day count of the range (none when start is
\* after end).
C13_PerDayIsRange ==
  (last.op = "report" /\ report.outcome = "ok") =>
     LET r == report.range
     IN /\ Len(report.perDay) = r.days
        /\ r.days > 0 =>
             /\ IsCalendarDate(r.start)
             /\ IsCalendarDate(r.end)
             /\ r.days = DayNumber(r.end) - DayNumber(r.start) + 1
             /\ \A k \in 1..r.days :
                   report.perDay[k].date = IsoOfDay(DayNumber(r.start) + k - 1)

\* The sum of createdCount over perDay: the number of pairs <<k, j>> with
\* 1 <= j <= perDay[k].createdCount (no entry counts more rows than todos
\* has).
PerDayCreatedSum(perDay) ==
  Cardinality({kj \in (DOMAIN perDay) \X (1..Len(todos)) :
                 kj[2] <= perDay[kj[1]].createdCount})

\* C14: totals.createdCount of every report is the sum of createdCount over
\* perDay.
C14_CreatedTotalIsSum ==
  (last.op = "report" /\ report.outcome = "ok") =>
     report.totals.createdCount = PerDayCreatedSum(report.perDay)

\* The clamped value of a days option as C15 states it.
ClampedDays(value) ==
  IF value.kind # "finite" THEN 7
  ELSE IF value.tenths < 10 THEN 1
  ELSE IF value.tenths > 3650 THEN 365
  ELSE value.tenths \div 10

\* C15: when start is not supplied, range.days of the report is the days
\* option clamped into 1..365 (7 when it is missing or not finite).
C15_DaysIsClamped ==
  (last.op = "report" /\ ~isIsoDateOnly(report.options.start)) =>
     /\ report.outcome = "ok"
     /\ report.range.days = ClampedDays(report.options.days)
     /\ report.range.days \in 1..365

\* C16: getSummaryReport returns a report for every start and end string,
\* and a string that is not the date of a calendar day is replaced by the
\* default: end by today, start by end - (days - 1).
C16_MalformedRangeIgnored ==
  last.op = "report" =>
     /\ report.outcome = "ok"
     /\ report.range.end = (IF IsCalendarDate(report.options.end)
                            THEN report.options.end ELSE SqlDate(now))
     /\ report.range.start =
          (IF IsCalendarDate(report.options.start) THEN report.options.start
           ELSE IsoOfDay(DayNumber(report.range.end) - (ClampedDays(report.options.days) - 1)))

C18_OneRowCountsAll ==
  /\ \A p \in Procs : pc[p] # "failed"
  /\ last.op # "create failed"
  /\ (\A p \in Procs : pc[p] = "idle") =>
        \A u \in Users :
           LET n == Cardinality({i \in TodoIds : todos[i].user_id = u})
           IN n > 0 => /\ <<u, DateOf(now)>> \in DOMAIN daily_stats
                       /\ daily_stats[<<u, DateOf(now)>>].created_count = n

\* The completions counted in all rows of a daily_stats table.
CompletedTotal(tbl) == SumOver(DOMAIN tbl, [k \in DOMAIN tbl |-> tbl[k].completed_count])

\* C19: an updateTodo call that takes a task from not completed to
\* completed adds exactly 1 to the completed_count of daily_stats, and an
\* updateTodo call that does not (the task was completed already, or stays
\* not completed) adds nothing.
C19_OneCountPerCompletion ==
  [][(updates' = updates + 1) =>
        CompletedTotal(daily_stats') - CompletedTotal(daily_stats) =
           Cardinality({i \in TodoIds : todos[i].completed = 0 /\ todos'[i].completed = 1})]_vars

\* The session row a request's cookie names, as getSession reads it now.
SessionOf(cookie) == IF cookie = 0 THEN {} ELSE getSession(sessions, cookie, now)

\* No completed row is open again after this step, unless the step is an
\* updateTodo of the user.
NoReopen ==
  updates' = updates =>
    \A i \in TodoIds \cap DOMAIN todos' : ~(todos[i].completed = 1 /\ todos'[i].completed = 0)

\* C21: the handler of a GET / that carries a valid session runs one pass of
\* processRepeatTasks, for the user of that session; no other step (a GET /
\* without a valid session, any other route, the middleware itself) runs a
\* pass or reopens a row.
C21_ProcessorOncePerPageLoad ==
  [][ IF Serving /\ last.route = "GET /" /\ SessionOf(last.cookie) # {}
      THEN LET u == (CHOOSE s \in SessionOf(last.cookie) : TRUE).user_id
           IN /\ last'.op = "pass"
              /\ last'.user = u
              /\ todos' = RunLoop(todos, SelectCandidates(todos, u), now)
      ELSE last'.op # "pass" /\ NoReopen ]_vars

\* A page load of the signed-in user 1 has reopened a task.
C21_Witness ==
  /\ last.op = "pass" /\ last.user = 1 /\ last.reopened # {}
  /\ \E r \in last.reopened : todos[r[1]].user_id = 1 /\ todos[r[1]].completed = 0

\* C27: a request is authenticated only with the id of a session row that
\* createSession inserted less than 7 * 24 hours before and that no logout
\* has deleted.
C27_SessionLifetime ==
  [][ last'.op = "request" /\ last'.user # 0 =>
        \E s \in sessions : /\ s.id = last'.cookie
                            /\ now - s.created_at < SessionHours ]_vars

\* Every table of the schema, and the next id of todos.
Tables ==
  <<todos, nextId, daily_stats, sessions, tags, subtasks, comments, todo_tags, sqlite_sequence>>

\* C22: the handler of a request to a route under /api whose cookie names no
\* valid session answers 401 and leaves every table as it was.
C22_UnauthorizedWritesNothing ==
  [][ Serving /\ last.route \in ApiRoutes /\ SessionOf(last.cookie) = {} =>
        last'.op = "401" /\ Tables' = Tables ]_vars

\* A request with the cookie of the session that has run out was answered
\* 401 while task 1 and a subtask of it exist.
C22_Witness ==
  /\ last.op = "401" /\ last.cookie = 2
  /\ 1 \in TodoIds
  /\ \E s \in subtasks : s.todo_id = 1

\* Task todoId exists and is userId's.
Owns(userId, todoId) == todoId \in TodoIds /\ todos[todoId].user_id = userId

\* C23: a step of updateTodo, deleteTodo, shareTodo or unshareTodo for a user
\* and the id of a task that does not exist or is another user's returns
\* null or false and leaves todos, todo_tags and daily_stats as they were.
C23_ForeignIdChangesNothing ==
  [][ \A u \in Users, id \in 1..MaxTodos :
        /\ ~Owns(u, id)
        /\ \/ \E up \in ShareUpdateInputs : updateTodo(u, id, up)
           \/ deleteTodo(u, id)
           \/ shareTodo(u, id)
           \/ unshareTodo(u, id)
        => /\ last'.missing
           /\ last'.token = NULL
           /\ todos' = todos /\ todo_tags' = todo_tags /\ daily_stats' = daily_stats ]_vars

\* shareTodo for user 2 has returned null while task 1 of user 1 exists and
\* is not shared.
C23_Witness ==
  /\ last.op = "share" /\ last.user = 2 /\ last.missing
  /\ 1 \in TodoIds /\ todos[1].user_id = 1 /\ todos[1].share_token = NULL
  /\ \A i \in TodoIds : todos[i].user_id = 1

\* C28: shareTodo by the owner of a task that is shared returns the token
\* the task has and that token resolves to that task; after unshareTodo by
\* the owner the token the task had resolves to no task; and a token that
\* has been drawn and resolves to no task never resolves to a task again.
C28_TokenLifecycle ==
  [][ /\ \A u \in Users, id \in 1..MaxTodos :
           Owns(u, id) /\ todos[id].share_token # NULL /\ shareTodo(u, id)
           => /\ last'.token = todos[id].share_token
              /\ getTodoByShareToken(todos', last'.token) = {id}
      /\ \A u \in Users, id \in 1..MaxTodos :
           Owns(u, id) /\ todos[id].share_token # NULL /\ unshareTodo(u, id)
           => getTodoByShareToken(todos', todos[id].share_token) = {}
      /\ \A t \in 1..random.tokens :
           getTodoByShareToken(todos, t) = {} => getTodoByShareToken(todos', t) = {} ]_vars

\* Task 1 has been shared, unshared and shared again: the first token
\* resolves to no task, the second to task 1.
C28_Witness ==
  /\ last.op = "share" /\ last.token = 2
  /\ getTodoByShareToken(todos, 1) = {}
  /\ getTodoByShareToken(todos, 2) = {1}

\* The rows of a table (a set of rows) that this step adds, removes or
\* changes, before and after.
Touched(before, after) == (before \ after) \cup (after \ before)

\* C24: the handler of a request of a signed-in user adds, changes or
\* removes no subtask, comment or tag link of a task that another user
\* owns.
C24_ChildRowsOfOwnTasksOnly ==
  [][ Serving /\ last.user # 0 =>
        /\ \A s \in Touched(subtasks, subtasks') : todos[s.todo_id].user_id = last.user
        /\ \A c \in Touched(comments, comments') : todos[c.todo_id].user_id = last.user
        /\ \A l \in Touched(todo_tags, todo_tags') : todos[l[1]].user_id = last.user ]_vars

\* C25: the reset write of a pass never reopens a row whose completed_at, as
\* it is in the table when the write is made, is less than one interval
\* old.
C25_FreshCompletionKept ==
  [][ \A i \in TodoIds \cap DOMAIN todos' :
        updates' = updates /\ todos[i].completed = 1 /\ todos'[i].completed = 0
        => ShouldRepeat(todos[i], now) ]_vars

\* C26: a createTodo call attaches its tagIds to the row its own INSERT
\* made, and returns that row.
C26_OwnRowReturned ==
  [][ \A p \in Procs :
        /\ pc[p] = "attach" /\ pc'[p] = "stat_select"
           => todo_tags' = todo_tags \cup ({cins[p]} \X ctagIds[p])
        /\ pc[p] = "created" /\ pc'[p] = "idle"
           => ctodo[p] = cins[p] ]_vars

\* The columns of todos a body names.
Named(upd) ==
  {f \in DOMAIN upd \cap {"completed", "status", "archived"} : upd[f] # "absent"}
    \cup (DOMAIN upd \ {"completed", "status", "archived", "tagIds"})

\* The body moves the row to status 'done'.
BecomesDone(row, upd) == upd.status = "done" /\ row.status # "done"

\* The row after the step differs from the row before in the columns of may
\* at most.
ChangesOnly(id, may) ==
  \A c \in DOMAIN todos[id] \ may : todos'[id][c] = todos[id][c]

Fixed == {"repeat_type", "repeat_interval", "share_token", "user_id"}

\* C29 as stated: updateTodo changes the columns the body names, and
\* completed and completed_at when status becomes 'done'; it changes no
\* other column, and never repeat_type, repeat_interval, share_token or
\* user_id.
C29_OnlyNamedColumns ==
  [][ \A u \in Users, id \in 1..MaxTodos, up \in PatchBodies :
        Owns(u, id) /\ updateTodo(u, id, up)
        => /\ ChangesOnly(id, (Named(up) \ Fixed)
                                \cup (IF BecomesDone(todos[id], up)
                                      THEN {"completed", "completed_at"} ELSE {}))
           /\ \A j \in TodoIds \ {id} : todos'[j] = todos[j] ]_vars

\* C29, amended: as stated, and completed_at changes with completed as well:
\* a body that names completed sets completed_at to the time of the call
\* (true) or to NULL (false), unless status becomes 'done'.
C29_NamedColumnsAndStamp ==
  [][ \A u \in Users, id \in 1..MaxTodos, up \in PatchBodies :
        Owns(u, id) /\ updateTodo(u, id, up)
        => /\ ChangesOnly(id, (Named(up) \ Fixed)
                                \cup (IF BecomesDone(todos[id], up)
                                      THEN {"completed", "completed_at"} ELSE {})
                                \cup (IF up.completed # "absent" THEN {"completed_at"} ELSE {}))
           /\ up.completed # "absent" /\ ~BecomesDone(todos[id], up)
              => todos'[id].completed_at = IF up.completed = "true" THEN now ELSE NULL
           /\ \A j \in TodoIds \ {id} : todos'[j] = todos[j] ]_vars

\* The body of saveTodo has been applied to a shared, completed daily task:
\* priority and due_date are the body's, the rest is as before.
C29_Witness ==
  \E i \in TodoIds :
    /\ todos[i].priority = 1 /\ todos[i].due_date = 400 * HoursPerDay
    /\ todos[i].repeat_type = "daily" /\ todos[i].repeat_interval = 1
    /\ todos[i].share_token # NULL /\ todos[i].completed = 1

\* A text contains a term.
Contains(text, term) ==
  \E k \in 0..(Len(text) - Len(term)) : SubSeq(text, k + 1, k + Len(term)) = term

\* C30: getTodos returns exactly the tasks of the user that pass every
\* filter supplied (a status other than '', a priority, dueBefore, dueAfter,
\* a search term, a tagId other than 0) and, when archived is not supplied,
\* are not archived, or whose archived flag is the one supplied.
C30_ExactlyTheMatchingTasks ==
  listing.user # 0 =>
    LET f == listing.filter
    IN listing.ids =
         {i \in TodoIds :
            /\ todos[i].user_id = listing.user
            /\ f.archived = "absent" => todos[i].archived = 0
            /\ f.archived = "true" => todos[i].archived = 1
            /\ f.archived = "false" => todos[i].archived = 0
            /\ f.status \in Statuses => todos[i].status = f.status
            /\ f.priority # NULL => todos[i].priority = f.priority
            /\ f.dueBefore # NULL => todos[i].due_date # NULL /\ todos[i].due_date <= f.dueBefore
            /\ f.dueAfter # NULL => todos[i].due_date # NULL /\ todos[i].due_date >= f.dueAfter
            /\ f.search # NoText => \/ Contains(todos[i].title, f.search)
                                    \/ Contains(todos[i].description, f.search)
            /\ f.tagId \in TagIds => <<i, f.tagId>> \in todo_tags}

\* A listing with four filters supplied has returned one task of several
\* the user has.
C30_Witness ==
  /\ listing.user = 1
  /\ listing.filter.status = "todo" /\ listing.filter.priority = 2
  /\ listing.filter.dueBefore = ListDue /\ listing.filter.search = <<"i", "l">>
  /\ listing.filter.archived = "absent"
  /\ listing.ids = {1}

====
